---- MODULE Spec2Model ----
(***************************************************************************)
(* Layout-aware label-to-value extraction of src/backend/scraper.py.       *)
(*                                                                         *)
(* Text is a sequence of one-character strings.  A number (a Python float) *)
(* is a decimal  m * 10^x  kept normalised (m not divisible by 10, or      *)
(* m = 0 and x = 0), so that 6,029,000,000 is [m |-> 6029, x |-> 6];       *)
(* Python's None for an Optional[float] is NoneNum, for an Optional[str]   *)
(* the string "None".  Binary rounding of float arithmetic is not          *)
(* modelled: products are exact.                                           *)
(***************************************************************************)
EXTENDS Integers, Sequences, FiniteSets, TLC

VARIABLES
    doc,             \* the opened PDF: the names of its pages, in order (pdf.pages)
    schema,          \* the schema argument: a sequence of metrics
    pc,              \* position in extract_financial_data
    mi,              \* index of the metric of the outer loop
    pi,              \* index of the page of the page loop
    ti,              \* index of the term of the term loop
    found_metric,    \* the local found_metric
    extracted_data,  \* the list being built and returned
    snippets,        \* the files written under backend/qc_snippets
    cin, cout,       \* _clean_number_string: argument and result
    uval, uunits, uout,   \* normalize_value_by_units: arguments and result
    words, span, vout,    \* find_value_near_phrase / join_numeric_sequence
    phr,             \* find_phrase_indices: arguments and result
    ud,              \* detect_units_near: window text and result
    cf,              \* _calculate_confidence: arguments and result
    rnd,             \* render_cell_screenshot: arguments, locals and position
    kpi,             \* extract_kpis_from_pdf: document, locals and position
    wr,              \* evidence image writers: keys, positions and files written
    cls,             \* classify_document / is_likely_financial_report: inputs and result
    jc,              \* join_numeric_sequence followed by _clean_number_string
    store,           \* the report store: files, markers and the running operation
    ident            \* is_financial_statement: page match counts and result

vars == <<doc, schema, pc, mi, pi, ti, found_metric, extracted_data, snippets,
          cin, cout, uval, uunits, uout, words, span, vout, phr, ud, cf, rnd, kpi,
          wr, cls, jc, store, ident>>

extractVars == <<doc, schema, pc, mi, pi, ti, found_metric, extracted_data, snippets>>
cleanVars == <<cin, cout>>
unitVars == <<uval, uunits, uout>>
valueVars == <<words, span, vout>>
moreVars == <<phr, ud, cf, rnd, kpi>>
lateVars == <<wr, cls, jc, store, ident>>

-----------------------------------------------------------------------------
(* Bounds of the model. *)

\* longest document, in pages
MaxPages == 3
\* longest argument string tried on _clean_number_string
MaxStrLen == 3
\* longest word list tried on find_value_near_phrase
MaxWords == 3
\* largest mantissa tried on normalize_value_by_units
MaxMantissa == 12
\* width of one glyph of the modelled pages, in points
CharW == 6
\* most unit cues in the caption tried on detect_units_near
MaxCues == 2

-----------------------------------------------------------------------------
(* Characters and strings. *)

LowerLetters == <<"a","b","c","d","e","f","g","h","i","j","k","l","m",
                  "n","o","p","q","r","s","t","u","v","w","x","y","z">>
UpperLetters == <<"A","B","C","D","E","F","G","H","I","J","K","L","M",
                  "N","O","P","Q","R","S","T","U","V","W","X","Y","Z">>
Digits == <<"0","1","2","3","4","5","6","7","8","9">>

\* the one character U+2212 (unicode minus)
UMinus == "u2212"

Range(s) == {s[i] : i \in 1..Len(s)}
DigitSet == Range(Digits)
LetterSet == Range(LowerLetters) \cup Range(UpperLetters)
Whitespace == {" ", "\n", "\t"}

IsDigit(c) == c \in DigitSet
DigitVal(c) == (CHOOSE i \in 1..10 : Digits[i] = c) - 1

\* str.lower() on one character
Lower(c) ==
    IF c \in Range(UpperLetters)
    THEN LowerLetters[CHOOSE i \in 1..26 : UpperLetters[i] = c]
    ELSE c
LowerStr(s) == [i \in 1..Len(s) |-> Lower(s[i])]

\* the regular expression class \w
IsWordChar(c) == c \in LetterSet \cup DigitSet \cup {"_"}

\* s[a..b] (1-based, inclusive), empty when a > b
Slice(s, a, b) == IF a > b THEN <<>> ELSE SubSeq(s, a, b)

\* str.replace(c, "") for a set of characters
RECURSIVE RemoveChars(_, _)
RemoveChars(s, cs) ==
    IF s = <<>> THEN <<>>
    ELSE IF Head(s) \in cs THEN RemoveChars(Tail(s), cs)
         ELSE <<Head(s)>> \o RemoveChars(Tail(s), cs)

\* str.replace(a, b) for single characters
ReplaceChar(s, a, b) == [i \in 1..Len(s) |-> IF s[i] = a THEN b ELSE s[i]]

\* str.strip()
RECURSIVE LStrip(_)
LStrip(s) == IF s # <<>> /\ Head(s) \in Whitespace THEN LStrip(Tail(s)) ELSE s
RECURSIVE RStrip(_)
RStrip(s) ==
    IF s # <<>> /\ s[Len(s)] \in Whitespace THEN RStrip(SubSeq(s, 1, Len(s) - 1)) ELSE s
Strip(s) == RStrip(LStrip(s))

\* whether sub occurs in s at position p
OccursAt(s, sub, p) ==
    /\ p >= 1
    /\ p + Len(sub) - 1 <= Len(s)
    /\ \A k \in 1..Len(sub) : s[p + k - 1] = sub[k]

\* "sub in s"
Contains(s, sub) == \E p \in 1..(Len(s) + 1) : OccursAt(s, sub, p)

\* the regular expression assertion \b at the gap before position p of s
WordBoundary(s, p) ==
    LET before == p >= 2 /\ p - 1 <= Len(s) /\ IsWordChar(s[p - 1])
        after == p >= 1 /\ p <= Len(s) /\ IsWordChar(s[p])
    IN before # after

\* re.search(r"\b" + re.escape(sub) + r"\b", s)
ContainsWord(s, sub) ==
    \E p \in 1..(Len(s) + 1) :
        OccursAt(s, sub, p) /\ WordBoundary(s, p) /\ WordBoundary(s, p + Len(sub))

\* " ".join(parts) and "\n".join(parts)
RECURSIVE Join(_, _)
Join(parts, sep) ==
    IF parts = <<>> THEN <<>>
    ELSE IF Len(parts) = 1 THEN parts[1]
         ELSE parts[1] \o <<sep>> \o Join(Tail(parts), sep)

-----------------------------------------------------------------------------
(* Numbers. *)

NoneNum == [ok |-> FALSE, m |-> 0, x |-> 0]

RECURSIVE Normalise(_, _)
Normalise(m, x) ==
    IF m = 0 THEN [ok |-> TRUE, m |-> 0, x |-> 0]
    ELSE IF m % 10 = 0 THEN Normalise(m \div 10, x + 1)
         ELSE [ok |-> TRUE, m |-> m, x |-> x]

\* the float m * 10^x
Num(m, x) == Normalise(m, x)

\* float * float
Mul(a, b) == Normalise(a.m * b.m, a.x + b.x)

\* the value of a string of decimal digits
RECURSIVE DigitsValue(_)
DigitsValue(s) ==
    IF s = <<>> THEN 0 ELSE 10 * DigitsValue(SubSeq(s, 1, Len(s) - 1)) + DigitVal(s[Len(s)])

AllDigits(s) == \A i \in 1..Len(s) : IsDigit(s[i])

\* float(s) for s over digits, sign, point, whitespace and punctuation:
\* [ws] [sign] (digits [. [digits]] | . digits) [ws]; NoneNum for ValueError.
\* digits [. [digits]] | . digits, the point (if any) at position dot of body
ParseDecimal(ip, fp) ==
    IF AllDigits(ip) /\ AllDigits(fp) /\ Len(ip) + Len(fp) >= 1
    THEN Normalise(DigitsValue(ip \o fp), 0 - Len(fp))
    ELSE NoneNum
ParseAtDot(body, dot) == ParseDecimal(Slice(body, 1, dot - 1), Slice(body, dot + 1, Len(body)))
FirstDot(body) ==
    IF "." \in Range(body) THEN CHOOSE i \in 1..Len(body) : body[i] = "." /\ \A j \in 1..(i - 1) : body[j] # "."
    ELSE Len(body) + 1
ParseUnsigned(body) == ParseAtDot(body, FirstDot(body))
Negate(v) == [v EXCEPT !.m = 0 - v.m]
ParseStripped(s) ==
    IF s # <<>> /\ s[1] = "-" THEN Negate(ParseUnsigned(Tail(s)))
    ELSE IF s # <<>> /\ s[1] = "+" THEN ParseUnsigned(Tail(s))
    ELSE ParseUnsigned(s)
ParseFloat(str) == ParseStripped(Strip(str))

-----------------------------------------------------------------------------
(* _clean_number_string *)

\* line 505-506: an enclosing parenthesis pair becomes a leading minus sign
ParenToMinus(s) ==
    IF s # <<>> /\ s[1] = "(" /\ s[Len(s)] = ")"
    THEN <<"-">> \o Slice(s, 2, Len(s) - 1)
    ELSE s

\* a variant without line 505-506: parentheses are left in place
CleanKeepParens(value_str) ==
    ParseFloat(RemoveChars(ReplaceChar(RemoveChars(Strip(value_str), {","}), UMinus, "-"),
                           {"$", "%"}))

CleanNumberString(value_str) ==
    ParseFloat(RemoveChars(ParenToMinus(ReplaceChar(RemoveChars(Strip(value_str), {","}),
                                                    UMinus, "-")),
                           {"$", "%"}))

-----------------------------------------------------------------------------
(* normalize_value_by_units *)

Thousand == Num(1, 3)
Million == Num(1, 6)
Billion == Num(1, 9)

\* a variant that never scales
NormalizeIgnoringUnits(value, units) == value

NormalizeValueByUnits(value, units) ==
    IF units = "None" \/ units = "" THEN value
    ELSE IF units = "thousands" THEN Mul(value, Thousand)
    ELSE IF units = "millions" THEN Mul(value, Million)
    ELSE IF units = "billions" THEN Mul(value, Billion)
    ELSE value

-----------------------------------------------------------------------------
(* Word lists (page.extract_words): tokens [text, x0, top, x1, bottom],     *)
(* addressed with Python's 0-based indices.                                *)

\* words[i]
At(ws, i) == IF i < 0 THEN ws[Len(ws) + i + 1] ELSE ws[i + 1]

\* re.match(r"^[\$\(\-\+]?\d[\d,\.]*[%\)]?$", text.replace("−", "-"))
IsNumericToken(text) ==
    LET candidate == ReplaceChar(text, UMinus, "-")
        rest == IF candidate # <<>> /\ candidate[1] \in {"$", "(", "-", "+"}
                THEN Tail(candidate) ELSE candidate
        core == IF rest # <<>> /\ rest[Len(rest)] \in {"%", ")"}
                THEN SubSeq(rest, 1, Len(rest) - 1) ELSE rest
    IN /\ core # <<>>
       /\ IsDigit(core[1])
       /\ \A k \in 2..Len(core) : IsDigit(core[k]) \/ core[k] \in {",", "."}

Max(a, b) == IF a >= b THEN a ELSE b
Min(a, b) == IF a <= b THEN a ELSE b
Abs(a) == IF a >= 0 THEN a ELSE 0 - a
SetMin(S) == CHOOSE a \in S : \A b \in S : a <= b

NoValue == [ok |-> FALSE, text |-> <<>>, x0 |-> 0, top |-> 0, x1 |-> 0, bottom |-> 0]

\* the while loop of join_numeric_sequence, from index i with the running
\* value_parts, last_right and bottom
RECURSIVE JoinLoop(_, _, _, _, _)
JoinLoop(ws, i, parts, last_right, bottom) ==
    IF i < Len(ws) /\ IsNumericToken(At(ws, i).text)
    THEN JoinLoop(ws, i + 1, Append(parts, At(ws, i).text), At(ws, i).x1,
                  Max(bottom, At(ws, i).bottom))
    ELSE [parts |-> parts, last_right |-> last_right, bottom |-> bottom]

\* a variant that stops after the first token
JoinFirstTokenOnly(ws, start_index) ==
    IF start_index < 0 \/ start_index >= Len(ws)
    THEN [ok |-> TRUE, text |-> <<>>, x0 |-> 0, top |-> 0, x1 |-> 0, bottom |-> 0]
    ELSE [ok |-> TRUE,
          text |-> IF IsNumericToken(At(ws, start_index).text)
                   THEN At(ws, start_index).text ELSE <<>>,
          x0 |-> At(ws, start_index).x0, top |-> At(ws, start_index).top,
          x1 |-> At(ws, start_index).x1, bottom |-> At(ws, start_index).bottom]

JoinNumericSequence(ws, start_index) ==
    IF start_index < 0 \/ start_index >= Len(ws)
    THEN [ok |-> TRUE, text |-> <<>>, x0 |-> 0, top |-> 0, x1 |-> 0, bottom |-> 0]
    ELSE LET w == At(ws, start_index)
             r == JoinLoop(ws, start_index, <<>>, w.x1, w.bottom)
         IN [ok |-> TRUE, text |-> Join(r.parts, " "),
             x0 |-> w.x0, top |-> w.top, x1 |-> r.last_right, bottom |-> r.bottom]

\* the for loop of find_value_near_phrase from index i; y_tol is kept doubled
\* (y_tol2 = 2 * y_tol) so that 1.5 * height stays an integer
RECURSIVE FindLoop(_, _, _, _, _)
FindLoop(ws, i, target_top, y_tol2, right_min_x) ==
    IF i >= Len(ws) THEN NoValue
    ELSE LET w == At(ws, i)
         IN IF /\ 2 * Abs(w.top - target_top) <= y_tol2
               /\ w.x0 >= right_min_x
               /\ IsNumericToken(w.text)
            THEN JoinNumericSequence(ws, i)
            ELSE FindLoop(ws, i + 1, target_top, y_tol2, right_min_x)

\* a variant without the test w.x0 >= right_min_x of line 370
FindValueLeftToo(ws, match_span) ==
    IF match_span[2] >= Len(ws) THEN NoValue
    ELSE FindLoop(ws, match_span[2], At(ws, match_span[2] - 1).top,
                  Max(4, (At(ws, match_span[2] - 1).bottom - At(ws, match_span[2] - 1).top) * 3),
                  0 - 1)

FindValueNearPhrase(ws, match_span) ==
    LET end == match_span[2]
    IN IF end >= Len(ws) THEN NoValue
       ELSE LET phrase_last_word == At(ws, end - 1)
                target_top == phrase_last_word.top
                target_bottom == phrase_last_word.bottom
                y_tol2 == Max(4, (target_bottom - target_top) * 3)
                right_min_x == phrase_last_word.x1
            IN FindLoop(ws, end, target_top, y_tol2, right_min_x)

-----------------------------------------------------------------------------
(* Values of the variables a specification does not use. *)

ExtractIdle ==
    /\ doc = <<>> /\ schema = <<>> /\ pc = "idle"
    /\ mi = 0 /\ pi = 0 /\ ti = 0
    /\ found_metric = FALSE /\ extracted_data = <<>> /\ snippets = {}
CleanIdle == cin = <<>> /\ cout = [done |-> FALSE, val |-> NoneNum]
UnitIdle == uval = NoneNum /\ uunits = "None" /\ uout = [done |-> FALSE, val |-> NoneNum]
Idle == [op |-> "idle"]
LateIdle == wr = Idle /\ cls = Idle /\ jc = Idle /\ store = Idle /\ ident = Idle
MoreIdle == phr = Idle /\ ud = Idle /\ cf = Idle /\ rnd = Idle /\ kpi = Idle /\ LateIdle
ValueIdle == words = <<>> /\ span = <<0, 0>> /\ vout = [op |-> "none", start |-> 0, res |-> NoValue]

-----------------------------------------------------------------------------
(* Pages.  A page is [width, height, broken, lines]; a line is             *)
(* [top, bottom, toks], its tokens [x0, text] from left to right, each      *)
(* glyph CharW wide.  The lines are the page as pdfplumber lays it out:     *)
(* top to bottom, tops more than the line tolerance (3) apart, tokens more  *)
(* than the word tolerance (3) apart.  A broken page is one whose           *)
(* extract_tables / extract_text raises.                                   *)

TokX1(tok) == tok.x0 + Len(tok.text) * CharW

\* page.extract_text() of a list of lines: tokens joined by " ", lines by "\n"
LineText(line) == Join([k \in 1..Len(line.toks) |-> line.toks[k].text], " ")
TextOfLines(lines) == Join([k \in 1..Len(lines) |-> LineText(lines[k])], "\n")
ExtractText(page) == TextOfLines(page.lines)

\* page.extract_words(use_text_flow=True): the tokens in reading order
RECURSIVE WordsOfLines(_)
WordsOfLines(lines) ==
    IF lines = <<>> THEN <<>>
    ELSE [k \in 1..Len(lines[1].toks) |->
             [text |-> lines[1].toks[k].text, x0 |-> lines[1].toks[k].x0,
              top |-> lines[1].top, x1 |-> TokX1(lines[1].toks[k]),
              bottom |-> lines[1].bottom]]
         \o WordsOfLines(Tail(lines))
ExtractWords(page) == WordsOfLines(page.lines)

\* the line and column of position p of TextOfLines(lines)
RECURSIVE LocateFrom(_, _, _)
LocateFrom(lines, li, p) ==
    IF li > Len(lines) THEN [line |-> 0, col |-> 0]
    ELSE IF p <= Len(LineText(lines[li])) THEN [line |-> li, col |-> p]
         ELSE LocateFrom(lines, li + 1, p - Len(LineText(lines[li])) - 1)
Locate(lines, p) == LocateFrom(lines, 1, p)

\* the x0 of the glyph at column col of a line's text
RECURSIVE ColX0From(_, _, _)
ColX0From(toks, k, col) ==
    IF k > Len(toks) THEN 0
    ELSE IF col <= Len(toks[k].text) THEN toks[k].x0 + (col - 1) * CharW
         ELSE ColX0From(toks, k + 1, col - Len(toks[k].text) - 1)
ColX0(line, col) == ColX0From(line.toks, 1, col)

\* pdfplumber.utils.get_bbox_overlap(a, b) is not None
Overlaps(ax0, atop, ax1, abottom, bx0, btop, bx1, bbottom) ==
    LET o_width == Min(ax1, bx1) - Max(ax0, bx0)
        o_height == Min(abottom, bbottom) - Max(atop, btop)
    IN o_height >= 0 /\ o_width >= 0 /\ o_height + o_width > 0

\* the glyphs of a token that page.crop((x0, top, x1, bottom)) keeps
KeptGlyphs(tok, ks) ==
    IF ks = {} THEN [x0 |-> tok.x0, text |-> <<>>]
    ELSE [x0 |-> tok.x0 + (SetMin(ks) - 1) * CharW,
          text |-> SubSeq(tok.text, SetMin(ks), SetMin(ks) + Cardinality(ks) - 1)]
CropToken(tok, ltop, lbottom, x0, top, x1, bottom) ==
    KeptGlyphs(tok, {k \in 1..Len(tok.text) :
                        Overlaps(tok.x0 + (k - 1) * CharW, ltop, tok.x0 + k * CharW, lbottom,
                                 x0, top, x1, bottom)})

NonEmptyTok(tok) == tok.text # <<>>
NonEmptyLine(line) == line.toks # <<>>

\* page.crop((x0, top, x1, bottom)): the lines and tokens with a glyph in the box
CropLines(page, x0, top, x1, bottom) ==
    SelectSeq([k \in 1..Len(page.lines) |->
                  [page.lines[k] EXCEPT !.toks =
                      SelectSeq([j \in 1..Len(page.lines[k].toks) |->
                                    CropToken(page.lines[k].toks[j], page.lines[k].top,
                                              page.lines[k].bottom, x0, top, x1, bottom)],
                                NonEmptyTok)]],
              NonEmptyLine)

-----------------------------------------------------------------------------
(* page.search(pattern, case=False): the pattern is compiled as a regular   *)
(* expression.  Of the metacharacters, those a term or a value string of    *)
(* the model can hold are interpreted: "(" and ")" group, "." matches any   *)
(* character but a newline, "$" matches at the end of the text.            *)

\* the position after the match of pat[k..] at position p of text, 0 if none
RECURSIVE RegexEnd(_, _, _, _)
RegexEnd(text, p, pat, k) ==
    IF k > Len(pat) THEN p
    ELSE IF pat[k] \in {"(", ")"} THEN RegexEnd(text, p, pat, k + 1)
    ELSE IF pat[k] = "$"
         THEN IF p = Len(text) + 1 \/ (p = Len(text) /\ text[p] = "\n")
              THEN RegexEnd(text, p, pat, k + 1) ELSE 0
    ELSE IF p > Len(text) THEN 0
    ELSE IF pat[k] = "." THEN IF text[p] # "\n" THEN RegexEnd(text, p + 1, pat, k + 1) ELSE 0
    ELSE IF Lower(text[p]) = Lower(pat[k]) THEN RegexEnd(text, p + 1, pat, k + 1)
    ELSE 0

\* the first hit of page.search: [found, start, end) in the page text
HitFrom(text, pat, starts) ==
    IF starts = {} THEN [found |-> FALSE, start |-> 0, end |-> 0]
    ELSE [found |-> TRUE, start |-> SetMin(starts), end |-> RegexEnd(text, SetMin(starts), pat, 1)]
NotBlank(text, p, e) == e > p /\ \E c \in p..(e - 1) : text[c] \notin Whitespace
FirstHit(text, pat) ==
    HitFrom(text, pat, {p \in 1..Len(text) : NotBlank(text, p, RegexEnd(text, p, pat, 1))})

NoBox == [x0 |-> 0, top |-> 0, x1 |-> 0, bottom |-> 0]

\* the box of the glyphs at positions start..end-1 of the text of lines
BoxOfCells(lines, a, b) ==
    [x0 |-> ColX0(lines[a.line], a.col),
     top |-> lines[a.line].top,
     x1 |-> ColX0(lines[b.line], b.col) + CharW,
     bottom |-> lines[b.line].bottom]
BoxOfSpan(lines, start, end) == BoxOfCells(lines, Locate(lines, start), Locate(lines, end - 1))

\* page.search(pattern, case=False)[0:1]
HitBox(page, h) ==
    IF h.found THEN [found |-> TRUE, box |-> BoxOfSpan(page.lines, h.start, h.end)]
    ELSE [found |-> FALSE, box |-> NoBox]
PageSearch(page, pat) == HitBox(page, FirstHit(ExtractText(page), pat))

-----------------------------------------------------------------------------
(* normalize_label and fuzzy_label_match (rapidfuzz token_sort_ratio).      *)

\* unidecode(c).lower(), then [^a-z0-9%\-\s] replaced by a space
NormChar(c) ==
    LET l == Lower(IF c = UMinus THEN "-" ELSE c)
    IN IF l \in Range(LowerLetters) \cup DigitSet \cup {"%", "-"} \cup Whitespace
       THEN l ELSE " "

\* str.split(): the maximal runs of non-whitespace
RECURSIVE SplitFrom(_, _, _)
SplitFrom(s, i, cur) ==
    IF i > Len(s) THEN (IF cur = <<>> THEN <<>> ELSE <<cur>>)
    ELSE IF s[i] \in Whitespace
         THEN (IF cur = <<>> THEN <<>> ELSE <<cur>>) \o SplitFrom(s, i + 1, <<>>)
         ELSE SplitFrom(s, i + 1, Append(cur, s[i]))
Split(s) == SplitFrom(s, 1, <<>>)

NormalizeLabel(text) == Join(Split([i \in 1..Len(text) |-> NormChar(text[i])]), " ")

\* the code point order of the characters normalize_label leaves
CharOrder == <<" ", "%", "-">> \o Digits \o LowerLetters
CharOrd(c) == CHOOSE i \in 1..Len(CharOrder) : CharOrder[i] = c

\* a < b for Python strings
RECURSIVE StrLess(_, _)
StrLess(a, b) ==
    IF b = <<>> THEN FALSE
    ELSE IF a = <<>> THEN TRUE
    ELSE IF a[1] = b[1] THEN StrLess(Tail(a), Tail(b))
    ELSE CharOrd(a[1]) < CharOrd(b[1])

\* sorted(tokens)
RECURSIVE Insert(_, _)
Insert(sorted, t) ==
    IF sorted = <<>> THEN <<t>>
    ELSE IF StrLess(t, sorted[1]) THEN <<t>> \o sorted
    ELSE <<sorted[1]>> \o Insert(Tail(sorted), t)
RECURSIVE Sorted(_)
Sorted(tokens) == IF tokens = <<>> THEN <<>> ELSE Insert(Sorted(Tail(tokens)), tokens[1])

TokenSort(s) == Join(Sorted(Split(s)), " ")

\* the length of the longest common subsequence
RECURSIVE LCS(_, _)
LCS(a, b) ==
    IF a = <<>> \/ b = <<>> THEN 0
    ELSE IF a[Len(a)] = b[Len(b)]
         THEN 1 + LCS(SubSeq(a, 1, Len(a) - 1), SubSeq(b, 1, Len(b) - 1))
         ELSE Max(LCS(SubSeq(a, 1, Len(a) - 1), b), LCS(a, SubSeq(b, 1, Len(b) - 1)))

\* fuzz.token_sort_ratio(a, b) as the fraction num / den of 100 * (1 - indel / (|a| + |b|))
IndelRatio(sa, sb) ==
    IF Len(sa) + Len(sb) = 0 THEN [num |-> 100, den |-> 1]
    ELSE [num |-> 200 * LCS(sa, sb), den |-> Len(sa) + Len(sb)]
TokenSortRatio(a, b) == IndelRatio(TokenSort(a), TokenSort(b))

\* fuzzy_label_match(label, candidates): [idx, score], idx = 0 for (None, 0);
\* extractOne keeps the first candidate of the highest score
Better(a, b) == a.num * b.den > b.num * a.den
BestIndex(scores) ==
    CHOOSE i \in 1..Len(scores) :
        /\ \A j \in 1..Len(scores) : ~Better(scores[j], scores[i])
        /\ \A j \in 1..(i - 1) : Better(scores[i], scores[j])
ExtractOne(scores, best) == [idx |-> best, score |-> scores[best].num \div scores[best].den]
Scores(norm_label, candidates) ==
    [i \in 1..Len(candidates) |-> TokenSortRatio(norm_label, NormalizeLabel(candidates[i]))]
BestOf(scores) == ExtractOne(scores, BestIndex(scores))
FuzzyLabelMatch(label, candidates) ==
    IF NormalizeLabel(label) = <<>> \/ candidates = <<>> THEN [idx |-> 0, score |-> 0]
    ELSE BestOf(Scores(NormalizeLabel(label), candidates))

\* the threshold of the fuzzy label path
FuzzyThreshold == 80

-----------------------------------------------------------------------------
(* find_phrase_indices *)

\* line 341: the tokens of the page, stripped and lowered
PageTokens(ws) == [k \in 1..Len(ws) |-> LowerStr(Strip(ws[k].text))]
\* line 342: re.split(r"\s+", phrase.strip().lower()) without the empty strings
PhraseTokens(phrase) == Split(LowerStr(Strip(phrase)))

\* lines 346-348: the loop over range(n - m + 1), from i
RECURSIVE PhraseLoop(_, _, _)
PhraseLoop(tokens, phrase_tokens, i) ==
    IF i >= Len(tokens) - Len(phrase_tokens) + 1 THEN <<>>
    ELSE (IF SubSeq(tokens, i + 1, i + Len(phrase_tokens)) = phrase_tokens
          THEN << <<i, i + Len(phrase_tokens)>> >> ELSE <<>>)
         \o PhraseLoop(tokens, phrase_tokens, i + 1)

\* a variant that compares the tokens as written, without strip and lower
FindPhraseAsWritten(ws, phrase) ==
    PhraseLoop([k \in 1..Len(ws) |-> ws[k].text], Split(Strip(phrase)), 0)

FindPhraseIndices(ws, phrase) == PhraseLoop(PageTokens(ws), PhraseTokens(phrase), 0)

-----------------------------------------------------------------------------
(* The number pattern of the value band:                                    *)
(* re.findall(r"\(?[\$\d,]+\)?\.?\d*%?", line_text), first match with a digit *)

InClass(text, p) == p <= Len(text) /\ (IsDigit(text[p]) \/ text[p] \in {"$", ","})
IsAt(text, p, c) == p <= Len(text) /\ text[p] = c

RECURSIVE ClassEnd(_, _)
ClassEnd(text, p) == IF InClass(text, p) THEN ClassEnd(text, p + 1) ELSE p
RECURSIVE DigitEnd(_, _)
DigitEnd(text, p) == IF p <= Len(text) /\ IsDigit(text[p]) THEN DigitEnd(text, p + 1) ELSE p

\* the position after the match of the pattern at p, 0 if it does not match there
AfterPercent(q5, text) == IF IsAt(text, q5, "%") THEN q5 + 1 ELSE q5
AfterPoint(q4, text) == AfterPercent(DigitEnd(text, q4), text)
AfterClose(q3, text) == AfterPoint(IF IsAt(text, q3, ".") THEN q3 + 1 ELSE q3, text)
AfterClass(q1, q2, text) ==
    IF q2 > q1 THEN AfterClose(IF IsAt(text, q2, ")") THEN q2 + 1 ELSE q2, text) ELSE 0
AfterOpen(q1, text) == AfterClass(q1, ClassEnd(text, q1), text)
NumberEnd(text, p) == AfterOpen(IF IsAt(text, p, "(") THEN p + 1 ELSE p, text)

HasDigit(s) == \E i \in 1..Len(s) : IsDigit(s[i])

\* number_matches[0]: [found, text, start] scanning from p
RECURSIVE FirstNumberFrom(_, _)
NumberAt(text, p, e) ==
    IF e = 0 THEN FirstNumberFrom(text, p + 1)
    ELSE IF HasDigit(SubSeq(text, p, e - 1))
         THEN [found |-> TRUE, text |-> SubSeq(text, p, e - 1), start |-> p]
         ELSE FirstNumberFrom(text, e)
FirstNumberFrom(text, p) ==
    IF p > Len(text) THEN [found |-> FALSE, text |-> <<>>, start |-> 0]
    ELSE NumberAt(text, p, NumberEnd(text, p))
FirstNumber(text) == FirstNumberFrom(text, 1)

-----------------------------------------------------------------------------
(* detect_units_near and detect_currency_near *)

KwThousands == <<"t", "h", "o", "u", "s", "a", "n", "d", "s">>
Kw000s == <<"0", "0", "0", "s">>
KwMillion == <<"m", "i", "l", "l", "i", "o", "n">>
KwDollarM == <<"$", "m">>
KwAudM == <<"a", "u", "d", " ", "m">>
KwAudMillion == <<"a", "u", "d", " ", "m", "i", "l", "l", "i", "o", "n">>
KwInMillions == <<"i", "n", " ", "m", "i", "l", "l", "i", "o", "n", "s">>
KwBillion == <<"b", "i", "l", "l", "i", "o", "n">>
KwDollarBn == <<"$", "b", "n">>
KwAudBn == <<"a", "u", "d", " ", "b", "n">>
KwAudBillion == <<"a", "u", "d", " ", "b", "i", "l", "l", "i", "o", "n">>
KwInBillions == <<"i", "n", " ", "b", "i", "l", "l", "i", "o", "n", "s">>

\* the margins of the unit window and of the currency window
UnitMarginX == 150
UnitBand == 60
CurrencyMarginX == 200
CurrencyBand == 80

\* (cropped.extract_text() or "").lower() of the window above the box
WindowText(page, box, margin_x, band) ==
    LET top == box.top
        left == Max(0, box.x0 - margin_x)
        right == Min(page.width, box.x1 + margin_x)
        band_top == Max(0, top - band)
    IN LowerStr(TextOfLines(CropLines(page, left, band_top, right, top)))

\* a variant that tests the millions group before the thousands group
UnitsMillionsFirst(text) ==
    IF text = <<>> THEN "None"
    ELSE IF \E kw \in {KwMillion, KwDollarM, KwAudM, KwAudMillion, KwInMillions} :
               ContainsWord(text, kw) THEN "millions"
    ELSE IF \E kw \in {KwThousands, Kw000s} : ContainsWord(text, kw) THEN "thousands"
    ELSE IF \E kw \in {KwBillion, KwDollarBn, KwAudBn, KwAudBillion, KwInBillions} :
               ContainsWord(text, kw) THEN "billions"
    ELSE IF Contains(text, <<"%">>) THEN "%"
    ELSE "None"

UnitsOfText(text) ==
    IF text = <<>> THEN "None"
    ELSE IF \E kw \in {KwThousands, Kw000s} : ContainsWord(text, kw) THEN "thousands"
    ELSE IF \E kw \in {KwMillion, KwDollarM, KwAudM, KwAudMillion, KwInMillions} :
               ContainsWord(text, kw) THEN "millions"
    ELSE IF \E kw \in {KwBillion, KwDollarBn, KwAudBn, KwAudBillion, KwInBillions} :
               ContainsWord(text, kw) THEN "billions"
    ELSE IF Contains(text, <<"%">>) THEN "%"
    ELSE "None"
DetectUnitsNear(page, box) == UnitsOfText(WindowText(page, box, UnitMarginX, UnitBand))

CurrencyOfText(text) ==
    IF text = <<>> THEN "None"
    ELSE IF Contains(text, <<"a", "u", "d">>) \/ Contains(text, <<"a", "$">>) THEN "AUD"
    ELSE IF Contains(text, <<"c", "a", "d">>) \/ Contains(text, <<"c", "$">>) THEN "CAD"
    ELSE IF Contains(text, <<"u", "s", "d">>) \/ Contains(text, <<"u", "s", "$">>)
            \/ Contains(text, <<"$">>) THEN "USD"
    ELSE IF Contains(text, <<"e", "u", "r">>) \/ Contains(text, <<"EURO_SIGN">>) THEN "EUR"
    ELSE IF Contains(text, <<"g", "b", "p">>) \/ Contains(text, <<"POUND_SIGN">>) THEN "GBP"
    ELSE IF Contains(text, <<"j", "p", "y">>) \/ Contains(text, <<"YEN_SIGN">>) THEN "JPY"
    ELSE IF Contains(text, <<"c", "n", "y">>) \/ Contains(text, <<"r", "m", "b">>) THEN "CNY"
    ELSE IF Contains(text, <<"s", "g", "d">>) THEN "SGD"
    ELSE "None"
DetectCurrencyNear(page, box) ==
    CurrencyOfText(WindowText(page, box, CurrencyMarginX, CurrencyBand))

-----------------------------------------------------------------------------
(* One iteration of the term loop of extract_financial_data, as a value:    *)
(* what the body computes for (page, term) up to the snippet.              *)

\* the margin of the value band around the term box
BandMargin == 5

\* lines 613-639: the label box, exact (page.search) or fuzzy
WordBox(w) == [x0 |-> w.x0, top |-> w.top, x1 |-> w.x1, bottom |-> w.bottom]
\* line 629: the first word whose text is text
FirstWithText(wds, text) ==
    CHOOSE i \in 1..Len(wds) : wds[i].text = text /\ \A j \in 1..(i - 1) : wds[j].text # text
\* a variant that accepts the best word whatever its score
FuzzyBoxAnyScore(wds, fz) ==
    IF fz.idx = 0
    THEN [kind |-> "nofuzzy", box |-> NoBox]
    ELSE [kind |-> "fuzzy", box |-> WordBox(wds[FirstWithText(wds, wds[fz.idx].text)])]

\* lines 626-637
FuzzyBox(wds, fz) ==
    IF fz.idx = 0 \/ fz.score < FuzzyThreshold
    THEN [kind |-> "nofuzzy", box |-> NoBox]
    ELSE [kind |-> "fuzzy", box |-> WordBox(wds[FirstWithText(wds, wds[fz.idx].text)])]
\* lines 621-625
FuzzyLocate(wds, term) ==
    IF wds = <<>> THEN [kind |-> "nofuzzy", box |-> NoBox]
    ELSE FuzzyBox(wds, FuzzyLabelMatch(term, [i \in 1..Len(wds) |-> wds[i].text]))
\* lines 618-639
LocateHit(page, term, hit) ==
    IF hit.found THEN [kind |-> "exact", box |-> hit.box]
    ELSE FuzzyLocate(ExtractWords(page), term)
LocateLabel(page, term) ==
    IF ~ContainsWord(LowerStr(ExtractText(page)), LowerStr(term))
    THEN [kind |-> "nomatch", box |-> NoBox]
    ELSE LocateHit(page, term, PageSearch(page, term))

\* lines 642-644: the lines of the horizontal band around the term box
BandLines(page, term_box) ==
    CropLines(page, 0, Max(0, term_box.top - BandMargin),
              page.width, Min(page.height, term_box.bottom + BandMargin))

\* lines 645-653: number_matches[0] in the text of the band
BandNumber(page, term_box) == FirstNumber(TextOfLines(BandLines(page, term_box)))

\* a variant that reports 0 for a string that does not parse
ValueFloatOrZero(value_str) ==
    IF CleanNumberString(value_str).ok THEN CleanNumberString(value_str) ELSE Num(0, 0)

\* lines 653-654: value_float
ValueFloat(value_str) == CleanNumberString(value_str)

\* lines 611-660: kind is the way the body ends ("found": it goes on to the snippet)
NoResult(lab, kind) ==
    [kind |-> kind, label |-> lab.kind, box |-> lab.box, raw_value |-> <<>>,
     start |-> 0, value |-> NoneNum, units |-> "None", currency |-> "None"]
\* lines 658-660
Scaled(page, lab, num, value_str, value_float, units) ==
    [kind |-> "found", label |-> lab.kind, box |-> lab.box, raw_value |-> value_str,
     start |-> num.start,
     value |-> NormalizeValueByUnits(value_float, units),
     units |-> units,
     currency |-> DetectCurrencyNear(page, lab.box)]
\* lines 655-658
Parsed(page, lab, num, value_str, value_float) ==
    IF ~value_float.ok
    THEN [NoResult(lab, "noparse") EXCEPT !.raw_value = value_str, !.start = num.start]
    ELSE Scaled(page, lab, num, value_str, value_float, DetectUnitsNear(page, lab.box))
\* lines 653-654
Valued(page, lab, num, value_str) == Parsed(page, lab, num, value_str, ValueFloat(value_str))
\* lines 650-653
Numbered(page, lab, num) ==
    IF ~num.found THEN NoResult(lab, "nonumber")
    ELSE Valued(page, lab, num, Strip(num.text))
\* lines 640-649
Located(page, lab) ==
    IF lab.kind \in {"nomatch", "nofuzzy"} THEN NoResult(lab, lab.kind)
    ELSE Numbered(page, lab, BandNumber(page, lab.box))
TermResult(page, term) == Located(page, LocateLabel(page, term))

\* create_qc_snippet, lines 553-557: whether both the term and the value are
\* found on the page, so that the highlighted snippet is drawn
SnippetHighlights(page, search_term, value_str) ==
    PageSearch(page, search_term).found /\ PageSearch(page, value_str).found

-----------------------------------------------------------------------------
(* The documents and schemas tried.  Terms are valid regular expressions;  *)
(* no label sits at the very top of its page.                              *)

RECURSIVE PlaceFrom(_, _)
PlaceFrom(x, texts) ==
    IF texts = <<>> THEN <<>>
    ELSE <<[x0 |-> x, text |-> texts[1]]>>
         \o PlaceFrom(x + (Len(texts[1]) + 1) * CharW, Tail(texts))

\* a line of two segments of consecutive words, starting at xa and at xb
Line2(top, bottom, xa, ta, xb, tb) ==
    [top |-> top, bottom |-> bottom, toks |-> PlaceFrom(xa, ta) \o PlaceFrom(xb, tb)]
Line1(top, bottom, xa, ta) == Line2(top, bottom, xa, ta, 0, <<>>)

Page(lines) == [width |-> 600, height |-> 800, broken |-> FALSE, lines |-> lines]

PgCover == Page(<<Line1(100, 110, 60, <<<<"A", "n", "n", "u", "a", "l">>, <<"R", "e", "p", "o", "r", "t">>, <<"2", "0", "2", "3">>>>)>>)

\* Scenario A: the caption "$m" in the band above "Net Interest Income 6,029"
PgA == Page(<<Line1(160, 170, 300, <<<<"$", "m">>>>),
              Line2(200, 210, 60, <<<<"N", "e", "t">>, <<"I", "n", "t", "e", "r", "e", "s", "t">>, <<"I", "n", "c", "o", "m", "e">>>>,
                    400, <<<<"6", ",", "0", "2", "9">>>>)>>)

PgB == Page(<<Line2(100, 110, 60, <<<<"I", "n", "t", "e", "r", "e", "s", "t">>, <<"i", "n", "c", "o", "m", "e", ",">>, <<"n", "e", "t">>>>,
                    400, <<<<"7", "7">>>>),
              Line2(300, 310, 60, <<<<"C", "E", "T", "1">>, <<"r", "a", "t", "i", "o">>>>,
                    400, <<<<"1", "2", ".", "5", "%">>>>)>>)

PgC == Page(<<Line1(100, 110, 60, <<<<"i", "n">>, <<"A", "U", "D">>, <<"m">>>>),
              Line2(140, 150, 60, <<<<"T", "o", "t", "a", "l">>, <<"a", "s", "s", "e", "t", "s">>>>,
                    400, <<<<"$", "2", ",", "5", "0", "0">>>>),
              Line2(300, 310, 60, <<<<"2", "0", "2", "3">>>>,
                    120, <<<<"N", "e", "t">>, <<"i", "n", "t", "e", "r", "e", "s", "t">>, <<"i", "n", "c", "o", "m", "e">>>>)>>)

PgD == Page(<<Line1(200, 210, 60, <<<<"N", "e", "t">>, <<"i", "n", "t", "e", "r", "e", "s", "t">>, <<"i", "n", "c", "o", "m", "e">>>>),
              Line1(300, 310, 60, <<<<"C", "E", "T", "1">>, <<"r", "a", "t", "i", "o">>, <<"i", "m", "p", "r", "o", "v", "e", "d">>>>),
              Line2(400, 410, 60, <<<<"T", "o", "t", "a", "l">>, <<"a", "s", "s", "e", "t", "s">>>>,
                    400, <<<<"(", "1", ",", "2", "3", "4", ".", "5", ")">>>>),
              Line1(700, 710, 60, <<<<"p", "a", "g", "e">>, <<"7">>>>)>>)

PgF == Page(<<Line2(200, 210, 60, <<<<"p", "(", "l", ")", "x">>>>, 400, <<<<"4", "2">>>>),
              Line2(300, 310, 60, <<<<"n">>, <<"(", "l", ")">>, <<"t">>>>, 400, <<<<"7">>>>),
              Line2(500, 510, 60, <<<<"T", "o", "t", "a", "l">>, <<"a", "s", "s", "e", "t", "s">>>>,
                    400, <<<<"8", "8">>>>)>>)

PgBroken == [width |-> 600, height |-> 800, broken |-> TRUE, lines |-> <<>>]

\* the pages by name; a document is a sequence of page names
PageOf == [cover |-> PgCover, a |-> PgA, b |-> PgB, c |-> PgC, d |-> PgD, f |-> PgF,
           broken |-> PgBroken]
PageIds == DOMAIN PageOf

Docs == UNION {[1..n -> PageIds] : n \in 1..MaxPages}

TermNII == <<"N", "e", "t", " ", "i", "n", "t", "e", "r", "e", "s", "t", " ", "i", "n", "c", "o", "m", "e">>
TermIIN == <<"I", "n", "t", "e", "r", "e", "s", "t", " ", "i", "n", "c", "o", "m", "e", ",", " ", "n", "e", "t">>
TermCET1 == <<"C", "E", "T", "1", " ", "r", "a", "t", "i", "o">>
TermTA == <<"T", "o", "t", "a", "l", " ", "a", "s", "s", "e", "t", "s">>
TermPLX == <<"p", "(", "l", ")", "x">>
TermNLT == <<"n", " ", "(", "l", ")", " ", "t">>

Metric(name, terms, kind) == [standard_name |-> name, search_terms |-> terms, value_kind |-> kind]

MetricNII == Metric("net_interest_income", <<TermNII, TermIIN>>, "amount")
MetricCET1 == Metric("cet1_ratio", <<TermCET1>>, "ratio")
MetricTA == Metric("total_assets", <<TermTA>>, "amount")
MetricPL == Metric("profit_loss", <<TermNLT, TermPLX>>, "amount")

\* a metric whose first term has an unparsable value on page d ("(1,234.5")
\* where its second term has a parsable one
MetricAR == Metric("assets_or_ratio", <<TermTA, TermCET1>>, "amount")

SchemaPool == { <<MetricNII, MetricCET1, MetricTA>>, <<MetricPL, MetricTA>>,
               <<MetricAR, MetricNII>> }

\* pdf_path.stem
ReportName == "report"

-----------------------------------------------------------------------------
(* extract_financial_data *)

AllTerms == UNION {UNION {Range(sch[k].search_terms) : k \in 1..Len(sch)} : sch \in SchemaPool}

\* TermResult and SnippetHighlights of every page and term of the pools,
\* computed once
ResultTable == [id \in PageIds |-> [t \in AllTerms |-> TermResult(PageOf[id], t)]]
HighlightTable ==
    [id \in PageIds |-> [t \in AllTerms |->
        SnippetHighlights(PageOf[id], t, ResultTable[id][t].raw_value)]]

CurPage == PageOf[doc[pi]]
CurMetric == schema[mi]
CurTerm == CurMetric.search_terms[ti]
CurResult == ResultTable[doc[pi]][CurTerm]
CurHighlights == HighlightTable[doc[pi]][CurTerm]

\* a variant that avoids a file that is already there
SnippetPathUnused(report_name, metric_name) ==
    IF <<report_name, metric_name>> \in snippets
    THEN <<report_name, metric_name, "1">> ELSE <<report_name, metric_name>>

\* create_qc_snippet's return value: backend/qc_snippets/{report}_{metric}.png
SnippetPath(report_name, metric_name) == <<report_name, metric_name>>

\* the files an earlier run on a report of the same name and schema can leave
LeftBehind(sch) == {<<ReportName, sch[j].standard_name>> : j \in 1..Len(sch)}

\* lines 671-692
DataPoint(metric, page_num, term, r, snippet_path) ==
    [metric_name |-> metric.standard_name,
     value |-> r.value,
     raw_value |-> r.raw_value,
     value_units |-> r.units,
     value_currency |-> r.currency,
     value_kind |-> metric.value_kind,
     source_page |-> page_num + 1,
     source_term_used |-> term,
     term_bbox |-> r.box,
     snippet_path |-> snippet_path,
     is_validated |-> FALSE]

Init ==
    /\ doc \in Docs
    /\ schema \in SchemaPool
    /\ pc = "metric"
    /\ mi = 1 /\ pi = 0 /\ ti = 0
    /\ found_metric = FALSE
    /\ extracted_data = <<>>
    /\ snippets \in {{}, LeftBehind(schema)}
    /\ CleanIdle /\ UnitIdle /\ ValueIdle /\ MoreIdle

idleVars == <<cleanVars, unitVars, valueVars, moreVars, lateVars>>

\* line 600-602: the next metric of the schema
StartMetric ==
    /\ pc = "metric" /\ mi <= Len(schema)
    /\ found_metric' = FALSE
    /\ pi' = 1
    /\ pc' = "page"
    /\ UNCHANGED <<doc, schema, mi, ti, extracted_data, snippets, idleVars>>

\* line 697: the schema is exhausted
Return ==
    /\ pc = "metric" /\ mi > Len(schema)
    /\ pc' = "done"
    /\ UNCHANGED <<doc, schema, mi, pi, ti, found_metric, extracted_data, snippets, idleVars>>

\* lines 603-605: the pages are exhausted, or found_metric breaks the page loop
PageLoopExit ==
    /\ pc = "page" /\ (pi > Len(doc) \/ found_metric)
    /\ mi' = mi + 1
    /\ pc' = "metric"
    /\ UNCHANGED <<doc, schema, pi, ti, found_metric, extracted_data, snippets, idleVars>>

\* a variant whose term loop starts at the last term
PageExtractLastTermFirst ==
    /\ pc = "page" /\ pi <= Len(doc) /\ ~found_metric
    /\ ~CurPage.broken
    /\ ti' = Len(CurMetric.search_terms)
    /\ pc' = "term"
    /\ UNCHANGED <<doc, schema, mi, pi, found_metric, extracted_data, snippets, idleVars>>

\* lines 608-609: the page's tables and text are extracted
PageExtract ==
    /\ pc = "page" /\ pi <= Len(doc) /\ ~found_metric
    /\ ~CurPage.broken
    /\ ti' = 1
    /\ pc' = "term"
    /\ UNCHANGED <<doc, schema, mi, pi, found_metric, extracted_data, snippets, idleVars>>

\* lines 608-609: extraction raises, and nothing catches it
PageExtractRaises ==
    /\ pc = "page" /\ pi <= Len(doc) /\ ~found_metric
    /\ CurPage.broken
    /\ pc' = "raised"
    /\ UNCHANGED <<doc, schema, mi, pi, ti, found_metric, extracted_data, snippets, idleVars>>

\* line 611: the terms are exhausted; on to the next page
TermLoopExit ==
    /\ pc = "term" /\ ti > Len(CurMetric.search_terms)
    /\ pi' = pi + 1
    /\ pc' = "page"
    /\ UNCHANGED <<doc, schema, mi, ti, found_metric, extracted_data, snippets, idleVars>>

\* a continue statement of the term loop: on to the next term
NextTerm ==
    /\ ti' = ti + 1
    /\ UNCHANGED <<doc, schema, pc, mi, pi, found_metric, extracted_data, snippets, idleVars>>

InTermLoop == pc = "term" /\ ti <= Len(CurMetric.search_terms)

CurPath == SnippetPath(ReportName, CurMetric.standard_name)

\* a variant that sets no found_metric, so that the page loop goes on
EmitKeepSearching(snippet_path) ==
    /\ extracted_data' = Append(extracted_data,
                                DataPoint(CurMetric, pi - 1, CurTerm, CurResult, snippet_path))
    /\ found_metric' = FALSE
    /\ pi' = pi + 1
    /\ pc' = "page"

\* lines 693-696: the data point is appended and the term loop left
Emit(snippet_path) ==
    /\ extracted_data' = Append(extracted_data,
                                DataPoint(CurMetric, pi - 1, CurTerm, CurResult, snippet_path))
    /\ found_metric' = TRUE
    /\ pi' = pi + 1
    /\ pc' = "page"

Found ==
    /\ InTermLoop
    /\ CurResult.kind = "found"

\* lines 613-615: the term is not in the page text
TermNoMatch ==
    /\ InTermLoop
    /\ CurResult.kind = "nomatch"
    /\ NextTerm

\* lines 619-631: no exact hit, and no word scores 80
TermFuzzyReject ==
    /\ InTermLoop
    /\ CurResult.kind = "nofuzzy"
    /\ NextTerm

\* lines 648-651: no number in the band
TermNoNumber ==
    /\ InTermLoop
    /\ CurResult.kind = "nonumber"
    /\ NextTerm

\* a variant that gives up the page after a value that does not parse
TermParseFailLeavesPage ==
    /\ InTermLoop
    /\ CurResult.kind = "noparse"
    /\ pi' = pi + 1
    /\ pc' = "page"
    /\ UNCHANGED <<doc, schema, mi, ti, found_metric, extracted_data, snippets, idleVars>>

\* lines 653-656: the number does not parse
TermParseFail ==
    /\ InTermLoop
    /\ CurResult.kind = "noparse"
    /\ NextTerm

\* create_qc_snippet lines 568-586: the highlighted snippet is drawn and saved
TermFoundHighlight ==
    /\ Found
    /\ CurHighlights
    /\ snippets' = snippets \cup {CurPath}
    /\ Emit(CurPath)
    /\ UNCHANGED <<doc, schema, mi, ti, idleVars>>

\* create_qc_snippet lines 571-585: rendering or saving raises outside any try
TermFoundHighlightRaises ==
    /\ Found
    /\ CurHighlights
    /\ pc' = "raised"
    /\ UNCHANGED <<doc, schema, mi, pi, ti, found_metric, extracted_data, snippets, idleVars>>

\* create_qc_snippet lines 557-564: the full page is saved as the fallback
TermFoundFallback ==
    /\ Found
    /\ ~CurHighlights
    /\ snippets' = snippets \cup {CurPath}
    /\ Emit(CurPath)
    /\ UNCHANGED <<doc, schema, mi, ti, idleVars>>

\* create_qc_snippet lines 565-566: the fallback fails, the path is returned anyway
TermFoundFallbackFails ==
    /\ Found
    /\ ~CurHighlights
    /\ snippets' = snippets
    /\ Emit(CurPath)
    /\ UNCHANGED <<doc, schema, mi, ti, idleVars>>

\* create_qc_snippet line 551: mkdir raises
TermFoundMkdirRaises ==
    /\ Found
    /\ pc' = "raised"
    /\ UNCHANGED <<doc, schema, mi, pi, ti, found_metric, extracted_data, snippets, idleVars>>

Next ==
    \/ StartMetric
    \/ Return
    \/ PageLoopExit
    \/ PageExtract
    \/ PageExtractRaises
    \/ TermLoopExit
    \/ TermNoMatch
    \/ TermFuzzyReject
    \/ TermNoNumber
    \/ TermParseFail
    \/ TermFoundHighlight
    \/ TermFoundHighlightRaises
    \/ TermFoundFallback
    \/ TermFoundFallbackFails
    \/ TermFoundMkdirRaises

Spec == Init /\ [][Next]_vars

-----------------------------------------------------------------------------
(* _clean_number_string applied to every short string over the characters  *)
(* a value string can hold, and to the documented examples.                *)

CleanAlphabet == {"1", "5", ",", ".", "(", ")", "$", "%", "-", UMinus, " "}

StringsUpTo(alphabet, n) == UNION {[1..k -> alphabet] : k \in 0..n}

Ex1234p5Neg == <<"(", "1", ",", "2", "3", "4", ".", "5", ")">>
Ex1234 == <<"1", ",", "2", "3", "4">>
Ex99Pct == <<"9", "9", "%">>
Ex2500Dollar == <<"$", "2", ",", "5", "0", "0">>
Ex512Neg == <<"(", "5", "1", "2", ")">>
ExUnclosed == <<"(", "1", ",", "2", "3", "4", ".", "5">>

CleanInputs ==
    StringsUpTo(CleanAlphabet, MaxStrLen)
        \cup {Ex1234p5Neg, Ex1234, Ex99Pct, Ex2500Dollar, Ex512Neg, ExUnclosed}

InitClean ==
    /\ cin \in CleanInputs
    /\ cout = [done |-> FALSE, val |-> NoneNum]
    /\ ExtractIdle /\ UnitIdle /\ ValueIdle /\ MoreIdle

CleanStep ==
    /\ ~cout.done
    /\ cout' = [done |-> TRUE, val |-> CleanNumberString(cin)]
    /\ UNCHANGED <<cin, extractVars, unitVars, valueVars, moreVars, lateVars>>

NextClean == CleanStep

SpecClean == InitClean /\ [][NextClean]_vars

-----------------------------------------------------------------------------
(* normalize_value_by_units applied to small decimals and every unit string *)
(* detect_units_near can return, and some it cannot.                       *)

UnitInputs == {"None", "", "thousands", "millions", "billions", "%", "trillions"}

InitUnits ==
    /\ uval \in {Num(m, x) : m \in (0 - MaxMantissa)..MaxMantissa, x \in (0 - 2)..2}
    /\ uunits \in UnitInputs
    /\ uout = [done |-> FALSE, val |-> NoneNum]
    /\ ExtractIdle /\ CleanIdle /\ ValueIdle /\ MoreIdle

UnitsStep ==
    /\ ~uout.done
    /\ uout' = [done |-> TRUE, val |-> NormalizeValueByUnits(uval, uunits)]
    /\ UNCHANGED <<uval, uunits, extractVars, cleanVars, valueVars, moreVars, lateVars>>

NextUnits == UnitsStep

SpecUnits == InitUnits /\ [][NextUnits]_vars

-----------------------------------------------------------------------------
(* find_value_near_phrase and join_numeric_sequence applied to short word   *)
(* lists.  The pool holds label words of two heights (y_tol 15 and 2),      *)
(* numeric tokens right of, left of, level with, within and beyond the     *)
(* tolerance of the label, and a non-numeric token.                        *)

Tok(text, x0, top, x1, bottom) ==
    [text |-> text, x0 |-> x0, top |-> top, x1 |-> x1, bottom |-> bottom]

TokenPool ==
    { Tok(<<"n", "i">>, 0, 100, 12, 110),
      Tok(<<"n", "i">>, 0, 100, 12, 101),
      Tok(<<"5">>, 20, 100, 26, 110),
      Tok(<<"(", "2", ")">>, 40, 98, 58, 112),
      Tok(<<"7">>, 5, 100, 11, 110),
      Tok(<<UMinus, "7">>, 60, 103, 72, 113),
      Tok(<<"9">>, 30, 116, 36, 126),
      Tok(<<"8", "%">>, 30, 102, 42, 108),
      Tok(<<"a", "1">>, 20, 100, 32, 110) }

WordLists == UNION {[1..k -> TokenPool] : k \in 1..MaxWords}

InitValue ==
    /\ words \in WordLists
    /\ span \in {sp \in (0..MaxWords + 1) \X (0..MaxWords + 1) :
                    sp[1] < sp[2] /\ sp[2] <= Len(words)}
    /\ vout = [op |-> "none", start |-> 0, res |-> NoValue]
    /\ ExtractIdle /\ CleanIdle /\ UnitIdle /\ MoreIdle

FindValueStep ==
    /\ vout.op = "none"
    /\ vout' = [op |-> "find", start |-> span[2], res |-> FindValueNearPhrase(words, span)]
    /\ UNCHANGED <<words, span, extractVars, cleanVars, unitVars, moreVars, lateVars>>

JoinStep ==
    /\ vout.op = "none"
    /\ \E start_index \in (0 - 1)..Len(words) :
           vout' = [op |-> "join", start |-> start_index,
                    res |-> JoinNumericSequence(words, start_index)]
    /\ UNCHANGED <<words, span, extractVars, cleanVars, unitVars, moreVars, lateVars>>

NextValue == FindValueStep \/ JoinStep

SpecValue == InitValue /\ [][NextValue]_vars

-----------------------------------------------------------------------------
(* find_phrase_indices applied to short token lists and phrases that differ *)
(* in case, padding and inner spacing.                                     *)

PhraseWordPool ==
    { [text |-> <<"N", "e", "t">>],
      [text |-> <<"n", "e", "t">>],
      [text |-> <<" ", "I", "n", "c", "o", "m", "e">>],
      [text |-> <<"i", "n", "c", "o", "m", "e">>],
      [text |-> <<"t", "a", "x">>] }

PhrasePool ==
    { <<"n", "e", "t", " ", "i", "n", "c", "o", "m", "e">>,
      <<" ", "N", "e", "t", " ", " ", "I", "N", "C", "O", "M", "E", " ">>,
      <<"n", "e", "t">>,
      <<"n", "e", "t", " ", "n", "e", "t">>,
      <<"t", "a", "x">>,
      <<"i", "n", "c", "o", "m", "e", " ", "n", "e", "t", " ", "t", "a", "x", " ", "x">>,
      <<>> }

InitPhrase ==
    /\ phr \in [op : {"args"},
                words : UNION {[1..k -> PhraseWordPool] : k \in 0..MaxWords},
                phrase : PhrasePool]
    /\ ud = Idle /\ cf = Idle /\ rnd = Idle /\ kpi = Idle /\ LateIdle
    /\ ExtractIdle /\ CleanIdle /\ UnitIdle /\ ValueIdle

PhraseStep ==
    /\ phr.op = "args"
    /\ phr' = [op |-> "done", words |-> phr.words, phrase |-> phr.phrase,
               matches |-> FindPhraseIndices(phr.words, phr.phrase)]
    /\ UNCHANGED <<extractVars, cleanVars, unitVars, valueVars, ud, cf, rnd, kpi, lateVars>>

NextPhrase == PhraseStep

SpecPhrase == InitPhrase /\ [][NextPhrase]_vars

-----------------------------------------------------------------------------
(* detect_units_near applied to a label under a caption of up to MaxCues    *)
(* cues, and normalize_value_by_units applied to its result.               *)

\* the cues, as the tokens of the caption
CuePool ==
    { <<<<"t", "h", "o", "u", "s", "a", "n", "d", "s">>>>,
      <<<<"0", "0", "0", "s">>>>,
      <<<<"M", "i", "l", "l", "i", "o", "n">>>>,
      <<<<"m", "i", "l", "l", "i", "o", "n", "s">>>>,
      <<<<"$", "m">>>>,
      <<<<"A", "U", "D">>, <<"m">>>>,
      <<<<"i", "n">>, <<"m", "i", "l", "l", "i", "o", "n", "s">>>>,
      <<<<"b", "i", "l", "l", "i", "o", "n">>>>,
      <<<<"A", "$", "b", "n">>>>,
      <<<<"t", "r", "i", "l", "l", "i", "o", "n">>>>,
      <<<<"i", "n">>, <<"t", "r", "i", "l", "l", "i", "o", "n", "s">>>>,
      <<<<"%">>>>,
      <<<<"G", "r", "o", "u", "p">>>> }

RECURSIVE Flatten(_)
Flatten(seqs) == IF seqs = <<>> THEN <<>> ELSE Head(seqs) \o Flatten(Tail(seqs))

LabelTotal == <<"T", "o", "t", "a", "l">>

\* a page with the label "Total" at top 200 and the caption 40 points above
CaptionPage(cues) ==
    Page((IF cues = <<>> THEN <<>> ELSE <<Line1(160, 170, 6, Flatten(cues))>>)
         \o <<Line1(200, 210, 60, <<LabelTotal>>)>>)

InitDetect ==
    /\ \E cues \in UNION {[1..k -> CuePool] : k \in 0..MaxCues} :
          ud = [op |-> "args", page |-> CaptionPage(cues),
                box |-> PageSearch(CaptionPage(cues), LabelTotal).box]
    /\ phr = Idle /\ cf = Idle /\ rnd = Idle /\ kpi = Idle /\ LateIdle
    /\ ExtractIdle /\ CleanIdle /\ UnitIdle /\ ValueIdle

DetectStep ==
    /\ ud.op = "args"
    /\ ud' = [op |-> "done", page |-> ud.page, box |-> ud.box,
              units |-> DetectUnitsNear(ud.page, ud.box),
              value |-> NormalizeValueByUnits(Num(5, 0), DetectUnitsNear(ud.page, ud.box))]
    /\ UNCHANGED <<extractVars, cleanVars, unitVars, valueVars, phr, cf, rnd, kpi, lateVars>>

NextDetect == DetectStep

SpecDetect == InitDetect /\ [][NextDetect]_vars

-----------------------------------------------------------------------------
(* _calculate_confidence of FinancialStatementIdentifier                    *)
(* (improved_financial_extractor.py) and of FinancialStatementAnalyzer      *)
(* (comprehensive_financial_analyzer.py).  Confidences are counted in       *)
(* tenths: 7 is 0.7.  The results of _detect_units and _detect_currency     *)
(* are inputs.                                                             *)

\* re.match(r"^[\d,]+\.?\d*$", raw_value)
IsCleanValue(raw_value) ==
    \E k \in 1..Len(raw_value) :
        /\ \A j \in 1..k : IsDigit(raw_value[j]) \/ raw_value[j] = ","
        /\ \/ \A j \in (k + 1)..Len(raw_value) : IsDigit(raw_value[j])
           \/ /\ k < Len(raw_value) /\ raw_value[k + 1] = "."
              /\ \A j \in (k + 2)..Len(raw_value) : IsDigit(raw_value[j])

\* a variant that returns the sum without the cap
ConfidenceUncapped(base, raw_value, units, currency) ==
    base + (IF IsCleanValue(raw_value) THEN 2 ELSE 0)
         + (IF units THEN 1 ELSE 0) + (IF currency THEN 1 ELSE 0)

\* base_confidence, the three boosts and min(1.0, base_confidence)
ConfidenceFrom(base, raw_value, units, currency) ==
    Min(10, base + (IF IsCleanValue(raw_value) THEN 2 ELSE 0)
                 + (IF units THEN 1 ELSE 0) + (IF currency THEN 1 ELSE 0))

\* FinancialStatementIdentifier._calculate_confidence: base 0.7
IdentifierConfidence(raw_value, units, currency) ==
    ConfidenceFrom(7, raw_value, units, currency)
\* FinancialStatementAnalyzer._calculate_confidence: base 0.6
AnalyzerConfidence(raw_value, units, currency) ==
    ConfidenceFrom(6, raw_value, units, currency)

InitConf ==
    /\ cf \in [op : {"args"}, class : {"identifier", "analyzer"},
               raw_value : StringsUpTo(CleanAlphabet, MaxStrLen),
               units : BOOLEAN, currency : BOOLEAN]
    /\ phr = Idle /\ ud = Idle /\ rnd = Idle /\ kpi = Idle /\ LateIdle
    /\ ExtractIdle /\ CleanIdle /\ UnitIdle /\ ValueIdle

IdentifierStep ==
    /\ cf.op = "args" /\ cf.class = "identifier"
    /\ cf' = [op |-> "done", class |-> cf.class, raw_value |-> cf.raw_value,
              units |-> cf.units, currency |-> cf.currency,
              confidence |-> IdentifierConfidence(cf.raw_value, cf.units, cf.currency)]
    /\ UNCHANGED <<extractVars, cleanVars, unitVars, valueVars, phr, ud, rnd, kpi, lateVars>>

AnalyzerStep ==
    /\ cf.op = "args" /\ cf.class = "analyzer"
    /\ cf' = [op |-> "done", class |-> cf.class, raw_value |-> cf.raw_value,
              units |-> cf.units, currency |-> cf.currency,
              confidence |-> AnalyzerConfidence(cf.raw_value, cf.units, cf.currency)]
    /\ UNCHANGED <<extractVars, cleanVars, unitVars, valueVars, phr, ud, rnd, kpi, lateVars>>

NextConf == IdentifierStep \/ AnalyzerStep

SpecConf == InitConf /\ [][NextConf]_vars

-----------------------------------------------------------------------------
(* render_cell_screenshot (app/processors/screenshotter.py).                *)
(* Rectangles are in PDF points with integer corners; an optional           *)
(* rectangle carries the flag some.                                         *)

FitzRect(x0, y0, x1, y1) == [some |-> TRUE, x0 |-> x0, y0 |-> y0, x1 |-> x1, y1 |-> y1]
NoRect == [some |-> FALSE, x0 |-> 0, y0 |-> 0, x1 |-> 0, y1 |-> 0]
RectIsEmpty(r) == r.x0 >= r.x1 \/ r.y0 >= r.y1

\* fitz.Rect.__and__ on two non-empty finite rectangles
RectAnd(a, b) ==
    FitzRect(Max(a.x0, b.x0), Max(a.y0, b.y0), Min(a.x1, b.x1), Min(a.y1, b.y1))

\* a variant that leaves the expanded rectangle as it is
ClipExpandedOnly(bbox, margin_points, page_rect) ==
    FitzRect(bbox.x0 - margin_points, bbox.y0 - margin_points,
             bbox.x1 + margin_points, bbox.y1 + margin_points)

\* lines 35-41: the clip rectangle
ClipRect(bbox, margin_points, page_rect) ==
    IF ~bbox.some THEN page_rect
    ELSE RectAnd(FitzRect(bbox.x0 - margin_points, bbox.y0 - margin_points,
                          bbox.x1 + margin_points, bbox.y1 + margin_points),
                 page_rect)

\* lines 37 and 42
InnerRect(bbox) == bbox

\* pix.width and pix.height for a clip rendered at the given scale
PixSize(clip, scale) ==
    IF RectIsEmpty(clip) THEN [width |-> 0, height |-> 0]
    ELSE [width |-> (clip.x1 - clip.x0) * scale, height |-> (clip.y1 - clip.y0) * scale]

\* lines 58-61: max(0, min(v, limit - 1))
ClampPx(v, limit) == Max(0, Min(v, limit - 1))

\* lines 52-62: to_px_rect
ToPxRect(r, clip, scale, image) ==
    FitzRect(ClampPx((r.x0 - clip.x0) * scale, image.width),
             ClampPx((r.y0 - clip.y0) * scale, image.height),
             ClampPx((r.x1 - clip.x1) * scale, image.width),
             ClampPx((r.y1 - clip.y1) * scale, image.height))

\* ImageDraw.rectangle refuses x1 < x0 or y1 < y0 in recent Pillow releases
RectReversed(px) == px.x1 < px.x0 \/ px.y1 < px.y0

RenderPageRect == FitzRect(0, 0, 100, 80)
RenderDoc == <<RenderPageRect>>

BBoxPool ==
    { NoRect,
      FitzRect(20, 20, 40, 30),
      FitzRect(2, 3, 30, 10),
      FitzRect(0, 0, 100, 80),
      FitzRect(90, 70, 100, 80),
      FitzRect(95, 10, 110, 20),
      FitzRect(120, 10, 130, 20) }

RenderFaults == {"none", "open", "get_pixmap", "makedirs", "save"}

InitRender ==
    /\ \E page_index \in 0..Len(RenderDoc), bbox \in BBoxPool,
          margin_points \in {0, 8}, scale \in {1, 2},
          fault \in RenderFaults, strict \in BOOLEAN :
         rnd = [op |-> "render", pc |-> "open",
                page_index |-> page_index, bbox |-> bbox,
                margin_points |-> margin_points, scale |-> scale,
                fault |-> fault, strict |-> strict,
                opens |-> 0, closes |-> 0, pending |-> "none",
                clip |-> NoRect, inner_rect |-> NoRect,
                image |-> [width |-> 0, height |-> 0],
                px_rect |-> NoRect, saved |-> FALSE]
    /\ phr = Idle /\ ud = Idle /\ cf = Idle /\ kpi = Idle /\ LateIdle
    /\ ExtractIdle /\ CleanIdle /\ UnitIdle /\ ValueIdle

renderOthers == <<extractVars, cleanVars, unitVars, valueVars, phr, ud, cf, kpi, lateVars>>

\* line 32: fitz.open
RenderOpen ==
    /\ rnd.op = "render" /\ rnd.pc = "open" /\ rnd.fault # "open"
    /\ rnd' = [rnd EXCEPT !.pc = "page", !.opens = @ + 1]
    /\ UNCHANGED renderOthers

\* line 32 raises before the try block is entered
RenderOpenRaises ==
    /\ rnd.op = "render" /\ rnd.pc = "open" /\ rnd.fault = "open"
    /\ rnd' = [rnd EXCEPT !.pc = "raised"]
    /\ UNCHANGED renderOthers

\* line 34: doc[page_index]
GetPage ==
    /\ rnd.op = "render" /\ rnd.pc = "page" /\ rnd.page_index < Len(RenderDoc)
    /\ rnd' = [rnd EXCEPT !.pc = "clip"]
    /\ UNCHANGED renderOthers

GetPageRaises ==
    /\ rnd.op = "render" /\ rnd.pc = "page" /\ rnd.page_index >= Len(RenderDoc)
    /\ rnd' = [rnd EXCEPT !.pc = "finally", !.pending = "raise"]
    /\ UNCHANGED renderOthers

\* lines 35-42
ComputeClip ==
    /\ rnd.op = "render" /\ rnd.pc = "clip"
    /\ rnd' = [rnd EXCEPT !.pc = "pixmap",
                          !.clip = ClipRect(rnd.bbox, rnd.margin_points,
                                            RenderDoc[rnd.page_index + 1]),
                          !.inner_rect = InnerRect(rnd.bbox)]
    /\ UNCHANGED renderOthers

\* lines 44-48
Rasterise ==
    /\ rnd.op = "render" /\ rnd.pc = "pixmap" /\ rnd.fault # "get_pixmap"
    /\ rnd' = [rnd EXCEPT !.pc = "draw", !.image = PixSize(rnd.clip, rnd.scale)]
    /\ UNCHANGED renderOthers

\* get_pixmap raises: a fault of the environment, or an empty clip that the
\* library refuses
RasteriseRaises ==
    /\ rnd.op = "render" /\ rnd.pc = "pixmap"
    /\ rnd.fault = "get_pixmap" \/ RectIsEmpty(rnd.clip)
    /\ rnd' = [rnd EXCEPT !.pc = "finally", !.pending = "raise"]
    /\ UNCHANGED renderOthers

\* line 50 with inner_rect None
SkipHighlight ==
    /\ rnd.op = "render" /\ rnd.pc = "draw" /\ ~rnd.inner_rect.some
    /\ rnd' = [rnd EXCEPT !.pc = "makedirs"]
    /\ UNCHANGED renderOthers

\* lines 50-67: both draw.rectangle calls use the same px_rect
DrawHighlight ==
    /\ rnd.op = "render" /\ rnd.pc = "draw" /\ rnd.inner_rect.some
    /\ ~(rnd.strict /\ RectReversed(ToPxRect(rnd.inner_rect, rnd.clip, rnd.scale, rnd.image)))
    /\ rnd' = [rnd EXCEPT !.pc = "makedirs",
                          !.px_rect = ToPxRect(rnd.inner_rect, rnd.clip, rnd.scale, rnd.image)]
    /\ UNCHANGED renderOthers

\* line 66: draw.rectangle raises ValueError on a reversed rectangle
DrawHighlightRaises ==
    /\ rnd.op = "render" /\ rnd.pc = "draw" /\ rnd.inner_rect.some
    /\ rnd.strict /\ RectReversed(ToPxRect(rnd.inner_rect, rnd.clip, rnd.scale, rnd.image))
    /\ rnd' = [rnd EXCEPT !.pc = "finally", !.pending = "raise",
                          !.px_rect = ToPxRect(rnd.inner_rect, rnd.clip, rnd.scale, rnd.image)]
    /\ UNCHANGED renderOthers

\* line 69
EnsureDirectory ==
    /\ rnd.op = "render" /\ rnd.pc = "makedirs" /\ rnd.fault # "makedirs"
    /\ rnd' = [rnd EXCEPT !.pc = "save"]
    /\ UNCHANGED renderOthers

EnsureDirectoryRaises ==
    /\ rnd.op = "render" /\ rnd.pc = "makedirs" /\ rnd.fault = "makedirs"
    /\ rnd' = [rnd EXCEPT !.pc = "finally", !.pending = "raise"]
    /\ UNCHANGED renderOthers

\* lines 70-71
SaveImage ==
    /\ rnd.op = "render" /\ rnd.pc = "save" /\ rnd.fault # "save"
    /\ rnd' = [rnd EXCEPT !.pc = "finally", !.pending = "return", !.saved = TRUE]
    /\ UNCHANGED renderOthers

SaveImageRaises ==
    /\ rnd.op = "render" /\ rnd.pc = "save" /\ rnd.fault = "save"
    /\ rnd' = [rnd EXCEPT !.pc = "finally", !.pending = "raise"]
    /\ UNCHANGED renderOthers

\* a variant whose handle is closed on the normal path only
CloseOnReturnOnly ==
    /\ rnd.op = "render" /\ rnd.pc = "finally"
    /\ rnd' = [rnd EXCEPT !.pc = IF rnd.pending = "return" THEN "returned" ELSE "raised",
                          !.closes = IF rnd.pending = "return" THEN @ + 1 ELSE @]
    /\ UNCHANGED renderOthers

\* lines 72-73: finally: doc.close()
CloseDoc ==
    /\ rnd.op = "render" /\ rnd.pc = "finally"
    /\ rnd' = [rnd EXCEPT !.pc = IF rnd.pending = "return" THEN "returned" ELSE "raised",
                          !.closes = @ + 1]
    /\ UNCHANGED renderOthers

NextRender ==
    \/ RenderOpen \/ RenderOpenRaises \/ GetPage \/ GetPageRaises
    \/ ComputeClip \/ Rasterise \/ RasteriseRaises
    \/ SkipHighlight \/ DrawHighlight \/ DrawHighlightRaises
    \/ EnsureDirectory \/ EnsureDirectoryRaises
    \/ SaveImage \/ SaveImageRaises \/ CloseDoc

SpecRender == InitRender /\ [][NextRender]_vars

-----------------------------------------------------------------------------
(* extract_kpis_from_pdf, lines 433-498, over documents of the pages above  *)
(* and a page that states the profit.                                      *)

PgP == Page(<<Line2(200, 210, 60, <<<<"P", "r", "o", "f", "i", "t">>, <<"a", "f", "t", "e", "r">>, <<"i", "n", "c", "o", "m", "e">>, <<"t", "a", "x">>>>,
                    400, <<<<"3", "1", "2">>>>),
              Line2(300, 310, 60, <<<<"S", "t", "a", "t", "u", "t", "o", "r", "y">>, <<"n", "e", "t">>, <<"p", "r", "o", "f", "i", "t">>, <<"a", "f", "t", "e", "r">>, <<"t", "a", "x">>>>,
                    400, <<<<"3", "0", "5">>>>)>>)

PgBlank == Page(<<>>)

KpiPageOf == [a |-> PgA, c |-> PgC, d |-> PgD, p |-> PgP, blank |-> PgBlank,
              broken |-> PgBroken]
KpiDocs == UNION {[1..n -> DOMAIN KpiPageOf] : n \in 1..MaxPages}

\* lines 438-447: kpi_targets
KpiTargets ==
    [net_interest_income |-> <<<<"n", "e", "t", " ", "i", "n", "t", "e", "r", "e", "s", "t", " ", "i", "n", "c", "o", "m", "e">>>>,
     net_profit_after_tax |->
        <<<<"n", "e", "t", " ", "p", "r", "o", "f", "i", "t", " ", "a", "f", "t", "e", "r", " ", "t", "a", "x">>,
          <<"p", "r", "o", "f", "i", "t", " ", "a", "f", "t", "e", "r", " ", "i", "n", "c", "o", "m", "e", " ", "t", "a", "x">>,
          <<"s", "t", "a", "t", "u", "t", "o", "r", "y", " ", "n", "e", "t", " ", "p", "r", "o", "f", "i", "t", " ", "a", "f", "t", "e", "r", " ", "t", "a", "x">>>>]

\* lines 449-452: an entry of results before its KPI is found
NoKpi == [found |-> FALSE, value |-> <<>>, page |-> 0, bbox |-> NoBox, label_bbox |-> NoBox]

\* lines 476-484: the box around words[span[0]:span[1]]
RECURSIVE LabelBox(_, _, _, _)
LabelBox(ws, i, end, box) ==
    IF i >= end THEN box
    ELSE LabelBox(ws, i + 1, end,
                  [x0 |-> Min(box.x0, At(ws, i).x0), top |-> Min(box.top, At(ws, i).top),
                   x1 |-> Max(box.x1, At(ws, i).x1), bottom |-> Max(box.bottom, At(ws, i).bottom)])

\* lines 486-493: the entry written for a value hit
KpiEntry(ws, match_span, value_hit, page_index) ==
    [found |-> TRUE, value |-> value_hit.text, page |-> page_index + 1,
     bbox |-> WordBox(value_hit),
     label_bbox |-> LabelBox(ws, match_span[1], match_span[2], WordBox(At(ws, match_span[1])))]

\* lines 474-494: the spans of one phrase, in order, until one has a value
RECURSIVE KpiFromMatches(_, _, _)
KpiFromMatches(ws, matches, page_index) ==
    IF matches = <<>> THEN NoKpi
    ELSE IF FindValueNearPhrase(ws, matches[1]).ok
         THEN KpiEntry(ws, matches[1], FindValueNearPhrase(ws, matches[1]), page_index)
         ELSE KpiFromMatches(ws, Tail(matches), page_index)

\* lines 472-496: the phrases of one KPI, in order, until one gives an entry
RECURSIVE KpiFromPhrases(_, _, _, _)
KpiFromPhrases(ws, phrases, j, page_index) ==
    IF j > Len(phrases) THEN NoKpi
    ELSE IF KpiFromMatches(ws, FindPhraseIndices(ws, phrases[j]), page_index).found
         THEN KpiFromMatches(ws, FindPhraseIndices(ws, phrases[j]), page_index)
         ELSE KpiFromPhrases(ws, phrases, j + 1, page_index)

\* lines 468-496: the KPIs not yet found are looked for on the page
KpiScan(ws, page_index, results) ==
    [k \in DOMAIN KpiTargets |->
        IF results[k].found THEN results[k]
        ELSE KpiFromPhrases(ws, KpiTargets[k], 1, page_index)]

\* what one page gives for each KPI, by page name
KpiPageTable ==
    [id \in DOMAIN KpiPageOf |->
        IF KpiPageOf[id].broken THEN [k \in DOMAIN KpiTargets |-> NoKpi]
        ELSE KpiScan(ExtractWords(KpiPageOf[id]), 0, [k \in DOMAIN KpiTargets |-> NoKpi])]

InitKpi ==
    /\ \E d \in KpiDocs :
         kpi = [op |-> "kpi", pc |-> "page", doc |-> d, page_index |-> 0,
                results |-> [k \in DOMAIN KpiTargets |-> NoKpi]]
    /\ phr = Idle /\ ud = Idle /\ cf = Idle /\ rnd = Idle /\ LateIdle
    /\ ExtractIdle /\ CleanIdle /\ UnitIdle /\ ValueIdle

kpiOthers == <<extractVars, cleanVars, unitVars, valueVars, phr, ud, cf, rnd, lateVars>>

KpiAtPage == kpi.op = "kpi" /\ kpi.pc = "page" /\ kpi.page_index < Len(kpi.doc)
KpiPage == KpiPageOf[kpi.doc[kpi.page_index + 1]]

\* lines 456-463: extract_words raises; the warning is logged and the loop continues
KpiWordsRaise ==
    /\ KpiAtPage /\ KpiPage.broken
    /\ kpi' = [kpi EXCEPT !.page_index = @ + 1]
    /\ UNCHANGED kpiOthers

\* lines 465-466: a page without words
KpiNoWords ==
    /\ KpiAtPage /\ ~KpiPage.broken /\ ExtractWords(KpiPage) = <<>>
    /\ kpi' = [kpi EXCEPT !.page_index = @ + 1]
    /\ UNCHANGED kpiOthers

\* lines 468-496
KpiScanPage ==
    /\ KpiAtPage /\ ~KpiPage.broken /\ ExtractWords(KpiPage) # <<>>
    /\ kpi' = [kpi EXCEPT !.page_index = @ + 1,
                          !.results = KpiScan(ExtractWords(KpiPage), kpi.page_index, kpi.results)]
    /\ UNCHANGED kpiOthers

\* line 498
KpiReturn ==
    /\ kpi.op = "kpi" /\ kpi.pc = "page" /\ kpi.page_index >= Len(kpi.doc)
    /\ kpi' = [kpi EXCEPT !.pc = "done"]
    /\ UNCHANGED kpiOthers

NextKpi == KpiWordsRaise \/ KpiNoWords \/ KpiScanPage \/ KpiReturn

SpecKpi == InitKpi /\ [][NextKpi]_vars

-----------------------------------------------------------------------------
(* The files that evidence images are written to: create_qc_snippet         *)
(* (scraper.py 550-586) and process_pdf (qc_pipeline.py 60-79), run by two   *)
(* writers in any interleaving.                                            *)

earlyVars == <<extractVars, cleanVars, unitVars, valueVars, moreVars>>
EarlyIdle ==
    /\ ExtractIdle /\ CleanIdle /\ UnitIdle /\ ValueIdle
    /\ phr = Idle /\ ud = Idle /\ cf = Idle /\ rnd = Idle /\ kpi = Idle

\* a document is its directory and its file stem; a snippet key adds the
\* metric, a cell key the page, the table of the page, the row and the column
SnippetKey(dir, stem, metric) ==
    [kind |-> "snippet", dir |-> dir, stem |-> stem, metric |-> metric,
     page |-> 0, table |-> 0, row |-> 0, col |-> 0]
CellKey(dir, stem, page, table, row, col) ==
    [kind |-> "cell", dir |-> dir, stem |-> stem, metric |-> <<>>,
     page |-> page, table |-> table, row |-> row, col |-> col]

\* scraper.py 550, 583-584: backend/qc_snippets/{report_name}_{metric_name}.png
SnippetFile(key) ==
    [root |-> "backend/qc_snippets", sub |-> <<>>,
     name |-> key.stem \o <<"_">> \o key.metric, page |-> 0, row |-> 0, col |-> 0]

\* qc_pipeline.py 61-62, 70-71: screenshots/{stem}/page{n+1}_r{row}_c{col}.png
CellFile(key) ==
    [root |-> "data/screenshots", sub |-> key.stem,
     name |-> <<>>, page |-> key.page + 1, row |-> key.row, col |-> key.col]

EvidenceFile(key) == IF key.kind = "snippet" THEN SnippetFile(key) ELSE CellFile(key)

StemNab == <<"n", "a", "b">>
StemNabTotal == <<"n", "a", "b", "_", "t", "o", "t", "a", "l">>
NameAssets == <<"a", "s", "s", "e", "t", "s">>
NameTotalAssets == <<"t", "o", "t", "a", "l", "_", "a", "s", "s", "e", "t", "s">>
NameRoe == <<"r", "o", "e">>

WriterKeys ==
    {SnippetKey(d[1], d[2], m) :
        d \in {<<"reports/2023", StemNab>>, <<"reports/2024", StemNab>>,
               <<"reports/2023", StemNabTotal>>},
        m \in {NameAssets, NameTotalAssets, NameRoe}}
    \cup
    {CellKey(d[1], d[2], 0, t, 0, c) :
        d \in {<<"reports/2023", StemNab>>, <<"reports/2024", StemNab>>},
        t \in {1, 2}, c \in {0, 1}}

Writers == {1, 2}
NoFile == [root |-> "", sub |-> <<>>, name |-> <<>>, page |-> 0, row |-> 0, col |-> 0]

InitWriters ==
    /\ \E k \in [Writers -> WriterKeys] :
         wr = [op |-> "write",
               key |-> k,
               pc |-> [w \in Writers |-> "start"],
               path |-> [w \in Writers |-> NoFile],
               files |-> {}]
    /\ cls = Idle /\ jc = Idle /\ store = Idle /\ ident = Idle
    /\ EarlyIdle

writerOthers == <<earlyVars, cls, jc, store, ident>>

\* the writer builds the path of its image
ResolvePath(w) ==
    /\ wr.op = "write" /\ wr.pc[w] = "start"
    /\ wr' = [wr EXCEPT !.pc[w] = "resolved", !.path[w] = EvidenceFile(wr.key[w])]
    /\ UNCHANGED writerOthers

\* img.save / image.save: the file is created, or replaced if it is there
SaveFile(w) ==
    /\ wr.op = "write" /\ wr.pc[w] = "resolved"
    /\ wr' = [wr EXCEPT !.pc[w] = "saved",
                        !.files = {f \in @ : f.path # wr.path[w]}
                                  \cup {[path |-> wr.path[w], key |-> wr.key[w]]}]
    /\ UNCHANGED writerOthers

NextWriters == \E w \in Writers : ResolvePath(w) \/ SaveFile(w)

SpecWriters == InitWriters /\ [][NextWriters]_vars

-----------------------------------------------------------------------------
(* AnnualReportClassifier.classify_document (ai_classifier.py 266-332) with *)
(* _fallback_classification (230-264), and is_likely_financial_report with  *)
(* compute_financial_report_score (collector.py 242-333).                   *)

\* str.upper() on one character
Upper(c) ==
    IF c \in Range(LowerLetters)
    THEN UpperLetters[CHOOSE i \in 1..26 : LowerLetters[i] = c]
    ELSE c
UpperStr(s) == [i \in 1..Len(s) |-> Upper(s[i])]

\* the default fallback_indicators of the classifier (lines 102-116); the
\* positives and negatives of compute_financial_report_score (lines 270-277
\* and 302-306) are the same lists
PositiveIndicators ==
    <<<<"a", "n", "n", "u", "a", "l", " ", "r", "e", "p", "o", "r", "t">>,
      <<"a", "n", "n", "u", "a", "l", " ", "r", "e", "p", "o", "r", "t", " ", "a", "n", "d", " ", "a", "c", "c", "o", "u", "n", "t", "s">>,
      <<"a", "n", "n", "u", "a", "l", " ", "r", "e", "v", "i", "e", "w">>,
      <<"f", "o", "r", "m", " ", "1", "0", "-", "k">>,
      <<"c", "o", "n", "s", "o", "l", "i", "d", "a", "t", "e", "d", " ", "f", "i", "n", "a", "n", "c", "i", "a", "l", " ", "s", "t", "a", "t", "e", "m", "e", "n", "t", "s">>,
      <<"f", "i", "n", "a", "n", "c", "i", "a", "l", " ", "s", "t", "a", "t", "e", "m", "e", "n", "t", "s">>,
      <<"s", "t", "a", "t", "e", "m", "e", "n", "t", " ", "o", "f", " ", "f", "i", "n", "a", "n", "c", "i", "a", "l", " ", "p", "o", "s", "i", "t", "i", "o", "n">>,
      <<"b", "a", "l", "a", "n", "c", "e", " ", "s", "h", "e", "e", "t">>,
      <<"i", "n", "c", "o", "m", "e", " ", "s", "t", "a", "t", "e", "m", "e", "n", "t">>,
      <<"s", "t", "a", "t", "e", "m", "e", "n", "t", " ", "o", "f", " ", "c", "o", "m", "p", "r", "e", "h", "e", "n", "s", "i", "v", "e", " ", "i", "n", "c", "o", "m", "e">>,
      <<"s", "t", "a", "t", "e", "m", "e", "n", "t", " ", "o", "f", " ", "c", "a", "s", "h", " ", "f", "l", "o", "w", "s">>,
      <<"c", "a", "s", "h", " ", "f", "l", "o", "w", " ", "s", "t", "a", "t", "e", "m", "e", "n", "t">>,
      <<"i", "n", "d", "e", "p", "e", "n", "d", "e", "n", "t", " ", "a", "u", "d", "i", "t", "o", "r">>,
      <<"a", "u", "d", "i", "t", "o", "r", "'", "s", " ", "r", "e", "p", "o", "r", "t">>,
      <<"f", "o", "r", " ", "t", "h", "e", " ", "y", "e", "a", "r", " ", "e", "n", "d", "e", "d">>>>
NegativeIndicators ==
    <<<<"i", "n", "t", "e", "r", "i", "m">>,
      <<"q", "u", "a", "r", "t", "e", "r">>,
      <<"q", "1">>,
      <<"q", "2">>,
      <<"q", "3">>,
      <<"q", "4">>,
      <<"h", "a", "l", "f", "-", "y", "e", "a", "r">>,
      <<"h", "a", "l", "f", " ", "y", "e", "a", "r">>,
      <<"t", "r", "a", "d", "i", "n", "g", " ", "u", "p", "d", "a", "t", "e">>,
      <<"p", "r", "e", "s", "e", "n", "t", "a", "t", "i", "o", "n">>,
      <<"i", "n", "v", "e", "s", "t", "o", "r", " ", "p", "r", "e", "s", "e", "n", "t", "a", "t", "i", "o", "n">>,
      <<"p", "r", "e", "s", "s", " ", "r", "e", "l", "e", "a", "s", "e">>,
      <<"p", "i", "l", "l", "a", "r", " ", "3">>,
      <<"s", "u", "s", "t", "a", "i", "n", "a", "b", "i", "l", "i", "t", "y", " ", "r", "e", "p", "o", "r", "t">>,
      <<"c", "s", "r", " ", "r", "e", "p", "o", "r", "t">>,
      <<"p", "r", "o", "x", "y", " ", "s", "t", "a", "t", "e", "m", "e", "n", "t">>,
      <<"c", "i", "r", "c", "u", "l", "a", "r">>,
      <<"m", "d", "&", "a">>,
      <<"f", "a", "c", "t", "b", "o", "o", "k">>>>

\* sum(1 for indicator in indicators if indicator in text)
RECURSIVE CountIn(_, _, _)
CountIn(indicators, text, i) ==
    IF i > Len(indicators) THEN 0
    ELSE (IF Contains(text, indicators[i]) THEN 1 ELSE 0) + CountIn(indicators, text, i + 1)

\* the texts tried, by name
ContentOf ==
    [none |-> <<>>,
     plain |-> <<"H", "e", "l", "l", "o", " ", "w", "o", "r", "l", "d">>,
     accounts |-> <<"A", "n", "n", "u", "a", "l", " ", "R", "e", "p", "o", "r", "t", " ", "a", "n", "d", " ", "A", "c", "c", "o", "u", "n", "t", "s">>,
     sheet |-> <<"B", "a", "l", "a", "n", "c", "e", " ", "s", "h", "e", "e", "t">>,
     interim |-> <<"I", "n", "t", "e", "r", "i", "m", " ", "p", "r", "e", "s", "e", "n", "t", "a", "t", "i", "o", "n">>,
     mixed |-> <<"A", "n", "n", "u", "a", "l", " ", "r", "e", "p", "o", "r", "t", " ", "Q", "1", " ", "i", "n", "t", "e", "r", "i", "m">>,
     ended |-> <<"A", "n", "n", "u", "a", "l", " ", "r", "e", "p", "o", "r", "t", " ", "f", "o", "r", " ", "t", "h", "e", " ", "y", "e", "a", "r", " ", "e", "n", "d", "e", "d", " ", "q", "u", "a", "r", "t", "e", "r">>,
     full |-> <<"A", "n", "n", "u", "a", "l", " ", "r", "e", "p", "o", "r", "t", " ", "f", "i", "n", "a", "n", "c", "i", "a", "l", " ", "s", "t", "a", "t", "e", "m", "e", "n", "t", "s", " ", "b", "a", "l", "a", "n", "c", "e", " ", "s", "h", "e", "e", "t">>,
     nabyear |-> <<"N", "A", "B", " ", "A", "n", "n", "u", "a", "l", " ", "R", "e", "p", "o", "r", "t", " ", "2", "0", "2", "3">>,
     national |-> <<"N", "a", "t", "i", "o", "n", "a", "l", " ", "r", "e", "s", "u", "l", "t", "s", " ", "F", "Y", "2", "3">>]
ContentIds == DOMAIN ContentOf

PositiveCount == [id \in ContentIds |-> CountIn(PositiveIndicators, LowerStr(ContentOf[id]), 1)]
NegativeCount == [id \in ContentIds |-> CountIn(NegativeIndicators, LowerStr(ContentOf[id]), 1)]

Classified(is_annual_report, confidence, method) ==
    [is_annual_report |-> is_annual_report, confidence |-> confidence, method |-> method]
NotClassified == Classified(FALSE, 0, "none")

\* lines 250-255: the confidence of the fallback
FallbackConfidence(positive_count, negative_count) ==
    IF positive_count + negative_count = 0 THEN 30
    ELSE (positive_count * 100) \div (positive_count + negative_count)

\* lines 240-264: _fallback_classification
FallbackClassification(id) ==
    Classified(PositiveCount[id] > NegativeCount[id]
                   /\ FallbackConfidence(PositiveCount[id], NegativeCount[id]) >= 50,
               FallbackConfidence(PositiveCount[id], NegativeCount[id]),
               "fallback")

\* re.search(r'\b(\d{1,3})\b', response): a run of one to three digits that
\* is a whole word, at position p
ShortNumberAt(s, p, k) ==
    /\ p + k - 1 <= Len(s)
    /\ AllDigits(SubSeq(s, p, p + k - 1))
    /\ (p = 1 \/ ~IsWordChar(s[p - 1]))
    /\ (p + k > Len(s) \/ ~IsWordChar(s[p + k]))
HasShortNumber(s) == \E p \in 1..Len(s) : \E k \in 1..3 : ShortNumberAt(s, p, k)
FirstShortNumber(s) ==
    [p |-> SetMin({q \in 1..Len(s) : \E k \in 1..3 : ShortNumberAt(s, q, k)}),
     k |-> CHOOSE k \in 1..3 :
             ShortNumberAt(s, SetMin({q \in 1..Len(s) : \E j \in 1..3 : ShortNumberAt(s, q, j)}), k)]

\* a variant that takes the number as it is
ParsedConfidenceUnclamped(response) ==
    IF ~HasShortNumber(response) THEN 50
    ELSE DigitsValue(SubSeq(response, FirstShortNumber(response).p,
                            FirstShortNumber(response).p + FirstShortNumber(response).k - 1))

\* lines 311-318: 50 unless the response holds a number, which is clamped
ParsedConfidence(response) ==
    IF ~HasShortNumber(response) THEN 50
    ELSE Max(0, Min(100,
             DigitsValue(SubSeq(response, FirstShortNumber(response).p,
                                FirstShortNumber(response).p + FirstShortNumber(response).k - 1))))

\* line 304
SaysAnnualReport(classification_response) ==
    Contains(UpperStr(classification_response), <<"A", "N", "N", "U", "A", "L", "_", "R", "E", "P", "O", "R", "T">>)

\* the answers of the model tried: to the classification prompt and to the
\* confidence prompt ("" is what _generate_response returns on any failure)
ClassificationResponses ==
    {<<"A", "N", "N", "U", "A", "L", "_", "R", "E", "P", "O", "R", "T">>,
     <<"N", "O", "T", "_", "A", "N", "N", "U", "A", "L", "_", "R", "E", "P", "O", "R", "T">>,
     <<"U", "n", "s", "u", "r", "e">>,
     <<>>}
ConfidenceResponses ==
    {<<"8", "5">>, <<"1", "5", "0">>, <<"1", "0", "0", "0">>, <<"a", "b", "o", "u", "t", " ", "7", "%">>, <<"5", "9">>, <<>>}

\* lines 276-332.  model is "loaded", "absent" (no dependencies or no model)
\* or "raises" (the try block of lines 298-326 raises)
ClassifyDocument(exists, id, model, classification_response, confidence_response) ==
    IF ~exists THEN Classified(FALSE, 0, "error")
    ELSE IF ContentOf[id] = <<>> THEN Classified(FALSE, 0, "error")
    ELSE IF model = "loaded"
         THEN Classified(SaysAnnualReport(classification_response),
                         ParsedConfidence(confidence_response), "ai")
         ELSE FallbackClassification(id)

InitClassify ==
    /\ \E exists \in BOOLEAN, id \in ContentIds, model \in {"loaded", "absent", "raises"},
          classification_response \in ClassificationResponses,
          confidence_response \in ConfidenceResponses :
         cls = [op |-> "classify", pc |-> "call", exists |-> exists, content |-> id,
                model |-> model,
                classification_response |-> classification_response,
                confidence_response |-> confidence_response,
                result |-> NotClassified]
    /\ wr = Idle /\ jc = Idle /\ store = Idle /\ ident = Idle
    /\ EarlyIdle

classifyOthers == <<earlyVars, wr, jc, store, ident>>

ClassifyReturn(result) ==
    /\ cls' = [cls EXCEPT !.pc = "done", !.result = result]
    /\ UNCHANGED classifyOthers

\* lines 276-283: the file is not there
ClassifyMissing ==
    /\ cls.op = "classify" /\ cls.pc = "call" /\ ~cls.exists
    /\ ClassifyReturn(Classified(FALSE, 0, "error"))

\* lines 286-294: no text could be extracted
ClassifyNoText ==
    /\ cls.op = "classify" /\ cls.pc = "call" /\ cls.exists
    /\ ContentOf[cls.content] = <<>>
    /\ ClassifyReturn(Classified(FALSE, 0, "error"))

\* lines 297-326: the model answers both prompts
ClassifyAI ==
    /\ cls.op = "classify" /\ cls.pc = "call" /\ cls.exists
    /\ ContentOf[cls.content] # <<>> /\ cls.model = "loaded"
    /\ ClassifyReturn(Classified(SaysAnnualReport(cls.classification_response),
                                 ParsedConfidence(cls.confidence_response), "ai"))

\* lines 328-332: no model, or the try block raised
ClassifyFallback ==
    /\ cls.op = "classify" /\ cls.pc = "call" /\ cls.exists
    /\ ContentOf[cls.content] # <<>> /\ cls.model # "loaded"
    /\ ClassifyReturn(FallbackClassification(cls.content))

NextClassify == ClassifyMissing \/ ClassifyNoText \/ ClassifyAI \/ ClassifyFallback

SpecClassify == InitClassify /\ [][NextClassify]_vars

-----------------------------------------------------------------------------
(* is_likely_financial_report and compute_financial_report_score            *)
(* (collector.py 242-333).                                                  *)

NoText == <<>>
\* BANK_REGISTRY["nab"]["name"].lower() (scraper.py 143)
BankNameNab == <<"n", "a", "t", "i", "o", "n", "a", "l", " ", "a", "u", "s", "t", "r", "a", "l", "i", "a", " ", "b", "a", "n", "k", " ", "l", "i", "m", "i", "t", "e", "d">>
BankCodes == {NoText, <<"n", "a", "b">>}
YearHints == {NoText, <<"2", "0", "2", "3">>}

Bonus(hit, points) == IF hit THEN points ELSE 0

\* lines 281-291: first token of the name, the name, the code
BankScore(text, bank) ==
    IF bank = NoText THEN 0
    ELSE Bonus(Contains(text, Split(BankNameNab)[1]), 1)
         + Bonus(Contains(text, BankNameNab), 1)
         + Bonus(Contains(text, bank), 1)

\* lines 294-295
YearScore(text, year) ==
    Bonus(year # NoText
          /\ (\/ Contains(text, year)
              \/ Contains(text, <<"f", "y">> \o SubSeq(year, Len(year) - 1, Len(year)))
              \/ Contains(text, year \o <<" ", "a", "n", "n", "u", "a", "l">>)), 2)

\* lines 298-299
SecScore(text) ==
    Bonus(Contains(text, <<"s", "e", "c", "u", "r", "i", "t", "i", "e", "s", " ", "a", "n", "d", " ", "e", "x", "c", "h", "a", "n", "g", "e", " ", "c", "o", "m", "m", "i", "s", "s", "i", "o", "n">>) \/ Contains(text, <<"w", "a", "s", "h", "i", "n", "g", "t", "o", "n", ",", " ", "d", ".", "c", ".">>), 2)

\* lines 264-309: the heuristic score of a text
HeuristicScore(id, bank, year) ==
    IF ContentOf[id] = NoText THEN 0
    ELSE Max(2 * PositiveCount[id]
             + BankScore(LowerStr(ContentOf[id]), bank)
             + YearScore(LowerStr(ContentOf[id]), year)
             + SecScore(LowerStr(ContentOf[id]))
             - 2 * NegativeCount[id], 0)

HeuristicTable ==
    [id \in ContentIds |-> [bank \in BankCodes |-> [year \in YearHints |->
        HeuristicScore(id, bank, year)]]]

\* lines 246-259: the score taken from a classification
AIScore(ai_result) ==
    IF ai_result.is_annual_report THEN (ai_result.confidence * 20) \div 100 ELSE 0

\* lines 242-309: compute_financial_report_score, given what its own call of
\* classify_document does
ComputeFinancialReportScore(available, raised, ai_result, heuristic) ==
    IF available /\ ~raised THEN AIScore(ai_result) ELSE heuristic

\* what a call of classify_document gives for an existing file
CallResults(id) ==
    { ClassifyDocument(TRUE, id, model, cr, fr) :
        model \in {"loaded", "absent"},
        cr \in {<<"A", "N", "N", "U", "A", "L", "_", "R", "E", "P", "O", "R", "T">>, <<"U", "n", "s", "u", "r", "e">>},
        fr \in {<<"8", "5">>, <<"5", "9">>, <<>>} }

InitLikely ==
    /\ \E id \in ContentIds, bank \in BankCodes, year \in YearHints,
          available \in BOOLEAN, raised \in BOOLEAN :
         \E first \in CallResults(id) :
           cls = [op |-> "likely", pc |-> "call", content |-> id, bank |-> bank,
                  year |-> year, available |-> available, raised |-> available /\ raised,
                  first |-> first, second_raised |-> FALSE, second |-> NotClassified,
                  score |-> 0, result |-> FALSE]
    /\ wr = Idle /\ jc = Idle /\ store = Idle /\ ident = Idle
    /\ EarlyIdle

\* lines 316-325: the classifier is sure enough, its verdict is returned
LikelyAIVerdict ==
    /\ cls.op = "likely" /\ cls.pc = "call"
    /\ cls.available /\ ~cls.raised /\ cls.first.confidence >= 60
    /\ cls' = [cls EXCEPT !.pc = "done", !.result = cls.first.is_annual_report]
    /\ UNCHANGED classifyOthers

LikelyFallThrough ==
    /\ cls.op = "likely" /\ cls.pc = "call"
    /\ ~(cls.available /\ ~cls.raised /\ cls.first.confidence >= 60)

\* lines 332-333 with 246-259: the score comes from a second classification,
\* whose sampled answers need not be those of the first
LikelyScoreFromAI ==
    /\ LikelyFallThrough
    /\ cls.available
    /\ \E second \in CallResults(cls.content) :
         cls' = [cls EXCEPT !.pc = "done", !.second = second,
                            !.score = ComputeFinancialReportScore(TRUE, FALSE, second,
                                HeuristicTable[cls.content][cls.bank][cls.year]),
                            !.result = ComputeFinancialReportScore(TRUE, FALSE, second,
                                HeuristicTable[cls.content][cls.bank][cls.year]) >= 3]
    /\ UNCHANGED classifyOthers

\* lines 332-333 with 260-309: no classifier, or its second call raises
LikelyScoreFromHeuristic ==
    /\ LikelyFallThrough
    /\ cls' = [cls EXCEPT !.pc = "done", !.second_raised = cls.available,
                          !.score = ComputeFinancialReportScore(cls.available, TRUE, NotClassified,
                                HeuristicTable[cls.content][cls.bank][cls.year]),
                          !.result = ComputeFinancialReportScore(cls.available, TRUE, NotClassified,
                                HeuristicTable[cls.content][cls.bank][cls.year]) >= 3]
    /\ UNCHANGED classifyOthers

NextLikely == LikelyAIVerdict \/ LikelyScoreFromAI \/ LikelyScoreFromHeuristic

SpecLikely == InitLikely /\ [][NextLikely]_vars

-----------------------------------------------------------------------------
(* join_numeric_sequence followed by _clean_number_string (scraper.py       *)
(* 308-333, 501-512), as find_value_near_phrase and the caller chain them.  *)

\* texts of the words of a line
JoinTexts ==
    { <<"5">>, <<"7", ",", "1">>, <<"(", "2", ")">>, <<"(", "5">>, <<"$", "1">>,
      <<"8", "%">>, <<"1", ".", "2", ".">>, <<UMinus, "7">>, <<"n", "i">> }

JoinWordLists ==
    UNION { [1..k -> {Tok(t, 0, 100, 6 * Len(t), 110) : t \in JoinTexts}] : k \in 1..MaxWords }

\* number of consecutive numeric tokens from start_index on (lines 325-331)
RECURSIVE RunLength(_, _)
RunLength(ws, i) ==
    IF i < Len(ws) /\ IsNumericToken(At(ws, i).text) THEN 1 + RunLength(ws, i + 1) ELSE 0

InitJoin ==
    /\ \E ws \in JoinWordLists : \E start_index \in 0..Len(ws) - 1 :
         jc = [op |-> "join", pc |-> "call", ws |-> ws, start_index |-> start_index,
               run |-> 0, value_text |-> <<>>, value |-> NoneNum]
    /\ wr = Idle /\ cls = Idle /\ store = Idle /\ ident = Idle
    /\ EarlyIdle

joinOthers == <<earlyVars, wr, cls, store, ident>>

\* lines 308-333: the run of numeric tokens is joined with single spaces
JoinRun ==
    /\ jc.op = "join" /\ jc.pc = "call"
    /\ jc' = [jc EXCEPT !.pc = "joined",
                        !.run = RunLength(jc.ws, jc.start_index),
                        !.value_text = JoinNumericSequence(jc.ws, jc.start_index).text]
    /\ UNCHANGED joinOthers

\* lines 501-512: the joined text is handed to the normalizer
CleanJoined ==
    /\ jc.op = "join" /\ jc.pc = "joined"
    /\ jc' = [jc EXCEPT !.pc = "done", !.value = CleanNumberString(jc.value_text)]
    /\ UNCHANGED joinOthers

NextJoin == JoinRun \/ CleanJoined

SpecJoin == InitJoin /\ [][NextJoin]_vars

-----------------------------------------------------------------------------
(* The report store: data/reports/<bank>/<bank>_FY<year>_Annual_Report.pdf  *)
(* of one bank, the ".approved" markers next to the reports and the ".tmp"  *)
(* files of downloads, as written by collector.py (download_and_validate    *)
(* 336-359, collect_from_urls 448-489, cleanup_reports 492-530,             *)
(* migrate_existing 533-576) and main.py (api_index_approve 91-113,         *)
(* api_index_reject 116-141, api_upload 189-213).                           *)

Years == {2023, 2024}
\* what a file holds; is_likely_financial_report accepts the two reports
Contents == {"reportA", "reportB", "brochure"}
Financial == {"reportA", "reportB"}
Absent == "none"

LastOp(op, year, source, before, ret) ==
    [op |-> op, year |-> year, source |-> source, before |-> before, ret |-> ret]

\* files: the stored report of each year; markers: the content that was
\* approved when the marker of the year was written (the marker itself only
\* holds the word "approved"); tmp: whether <dest>.tmp exists
InitStore ==
    /\ store = [op |-> "store",
                files |-> [y \in Years |-> Absent],
                markers |-> [y \in Years |-> Absent],
                tmp |-> [y \in Years |-> FALSE],
                last |-> LastOp("none", 2023, Absent, Absent, Absent)]
    /\ wr = Idle /\ cls = Idle /\ jc = Idle /\ ident = Idle
    /\ EarlyIdle

storeOthers == <<earlyVars, wr, cls, jc, ident>>

\* main.py 189-213: the upload is saved at the standard path, unvalidated
Upload ==
    /\ store.op = "store"
    /\ \E y \in Years, c \in Contents :
         store' = [store EXCEPT !.files[y] = c,
                                !.last = LastOp("upload", y, c, store.files[y], "dest")]
    /\ UNCHANGED storeOthers

\* main.py 91-113: the marker is written next to the indexed report
Approve ==
    /\ store.op = "store"
    /\ \E y \in Years :
         /\ store.files[y] # Absent
         /\ store' = [store EXCEPT !.markers[y] = store.files[y],
                                   !.last = LastOp("approve", y, Absent, store.files[y], "ok")]
    /\ UNCHANGED storeOthers

\* main.py 116-141: the report and its marker are removed
Reject ==
    /\ store.op = "store"
    /\ \E y \in Years :
         /\ store.files[y] # Absent
         /\ store' = [store EXCEPT !.files[y] = Absent, !.markers[y] = Absent,
                                   !.last = LastOp("reject", y, Absent, store.files[y], "ok")]
    /\ UNCHANGED storeOthers

\* collector.py 492-530: every stored file that is not judged a financial
\* report is removed; files not ending in ".pdf" are passed over
CleanupReports ==
    /\ store.op = "store"
    /\ store' = [store EXCEPT
                   !.files = [y \in Years |->
                                 IF store.files[y] \in Financial THEN store.files[y] ELSE Absent],
                   !.last = LastOp("cleanup", 2023, Absent, Absent, "ok")]
    /\ UNCHANGED storeOthers

\* collector.py 336-345: the download is judged a report and renamed
DownloadAccepted ==
    /\ store.op = "store"
    /\ \E y \in Years, c \in Financial :
         store' = [store EXCEPT !.files[y] = c, !.tmp[y] = FALSE,
                                !.last = LastOp("download_and_validate", y, c,
                                                store.files[y], "dest")]
    /\ UNCHANGED storeOthers

\* collector.py 343-346: after os.replace raised OSError the file is copied,
\* and the source of the copy stays
DownloadAcceptedCopied ==
    /\ store.op = "store"
    /\ \E y \in Years, c \in Financial :
         store' = [store EXCEPT !.files[y] = c, !.tmp[y] = TRUE,
                                !.last = LastOp("download_and_validate", y, c,
                                                store.files[y], "dest")]
    /\ UNCHANGED storeOthers

\* collector.py 347-352: the download is not judged a report
DownloadRejected ==
    /\ store.op = "store"
    /\ \E y \in Years, c \in Contents \ Financial :
         store' = [store EXCEPT !.tmp[y] = FALSE,
                                !.last = LastOp("download_and_validate", y, c,
                                                store.files[y], Absent)]
    /\ UNCHANGED storeOthers

\* collector.py 353-359: the download, or the copy after a failed rename,
\* raised; what was written of the temporary file is removed
DownloadError ==
    /\ store.op = "store"
    /\ \E y \in Years :
         store' = [store EXCEPT !.tmp[y] = FALSE,
                                !.last = LastOp("download_and_validate", y, Absent,
                                                store.files[y], Absent)]
    /\ UNCHANGED storeOthers

\* collector.py 470-485: a local file is copied to the standard path and
\* then validated there
IngestLocalAccepted ==
    /\ store.op = "store"
    /\ \E y \in Years, c \in Financial :
         store' = [store EXCEPT !.files[y] = c,
                                !.last = LastOp("collect_from_urls", y, c,
                                                store.files[y], "dest")]
    /\ UNCHANGED storeOthers

\* collector.py 473-481: the copy is removed when it is not judged a report
IngestLocalRejected ==
    /\ store.op = "store"
    /\ \E y \in Years, c \in Contents \ Financial :
         store' = [store EXCEPT !.files[y] = Absent,
                                !.last = LastOp("collect_from_urls", y, c,
                                                store.files[y], Absent)]
    /\ UNCHANGED storeOthers

\* collector.py 564-570: a file of data/downloads is copied and kept
MigrateAccepted ==
    /\ store.op = "store"
    /\ \E y \in Years, c \in Financial :
         store' = [store EXCEPT !.files[y] = c,
                                !.last = LastOp("migrate_existing", y, c,
                                                store.files[y], "dest")]
    /\ UNCHANGED storeOthers

\* collector.py 566-572: the copy is removed when it is not judged a report
MigrateRejected ==
    /\ store.op = "store"
    /\ \E y \in Years, c \in Contents \ Financial :
         store' = [store EXCEPT !.files[y] = Absent,
                                !.last = LastOp("migrate_existing", y, c,
                                                store.files[y], Absent)]
    /\ UNCHANGED storeOthers

NextStore ==
    \/ Upload \/ Approve \/ Reject \/ CleanupReports
    \/ DownloadAccepted \/ DownloadAcceptedCopied \/ DownloadRejected \/ DownloadError
    \/ IngestLocalAccepted \/ IngestLocalRejected
    \/ MigrateAccepted \/ MigrateRejected

SpecStore == InitStore /\ [][NextStore]_vars

-----------------------------------------------------------------------------
(* FinancialStatementIdentifier.is_financial_statement                      *)
(* (improved_financial_extractor.py 179-208).  A page is the set of the     *)
(* indicator patterns that match its text.                                  *)

\* len(FINANCIAL_INDICATORS)
IndicatorCount == 34
\* the pages sampled at most
SamplePages == 10
MaxIdentPages == 12

IdentPageKinds == { {}, {10}, 1..11, 1..IndicatorCount }

\* documents of one kind of page, longer than the sample, and short
\* documents of mixed pages
IdentDocs ==
    { [i \in 1..n |-> k] : n \in 0..MaxIdentPages, k \in IdentPageKinds }
    \cup UNION { [1..n -> IdentPageKinds] : n \in 1..MaxPages }

\* lines 198-201: one evidence entry per matching pattern, in pattern order
RECURSIVE PageEvidence(_, _, _)
PageEvidence(page_num, matching, i) ==
    IF i > IndicatorCount THEN <<>>
    ELSE (IF i \in matching THEN << <<page_num + 1, i>> >> ELSE <<>>)
         \o PageEvidence(page_num, matching, i + 1)

InitIdent ==
    /\ \E exists \in BOOLEAN, pages \in IdentDocs :
         ident = [op |-> "ident", pc |-> "call", exists |-> exists, pages |-> pages,
                  page_num |-> 0, total_score |-> 0, evidence |-> <<>>,
                  is_financial |-> FALSE, confidence_num |-> 0]
    /\ wr = Idle /\ cls = Idle /\ jc = Idle /\ store = Idle
    /\ EarlyIdle

identOthers == <<earlyVars, wr, cls, jc, store>>

\* lines 184-185: no such file
IdentMissing ==
    /\ ident.op = "ident" /\ ident.pc = "call" /\ ~ident.exists
    /\ ident' = [ident EXCEPT !.pc = "done"]
    /\ UNCHANGED identOthers

\* lines 187-193: the document is opened
IdentOpen ==
    /\ ident.op = "ident" /\ ident.pc = "call" /\ ident.exists
    /\ ident' = [ident EXCEPT !.pc = "loop"]
    /\ UNCHANGED identOthers

\* lines 195-202: one sampled page; every matching pattern adds one
IdentPage ==
    /\ ident.op = "ident" /\ ident.pc = "loop"
    /\ ident.page_num < Min(SamplePages, Len(ident.pages))
    /\ ident' = [ident EXCEPT
                   !.page_num = ident.page_num + 1,
                   !.total_score = ident.total_score
                                   + Cardinality(ident.pages[ident.page_num + 1]),
                   !.evidence = ident.evidence
                                \o PageEvidence(ident.page_num,
                                                ident.pages[ident.page_num + 1], 1)]
    /\ UNCHANGED identOthers

\* lines 204-208: confidence = total_score / max_possible_score, kept as its
\* numerator over IndicatorCount; confidence > 0.3
IdentReturn ==
    /\ ident.op = "ident" /\ ident.pc = "loop"
    /\ ident.page_num = Min(SamplePages, Len(ident.pages))
    /\ ident' = [ident EXCEPT !.pc = "done",
                              !.confidence_num = ident.total_score,
                              !.is_financial = (10 * ident.total_score > 3 * IndicatorCount)]
    /\ UNCHANGED identOthers

NextIdent == IdentMissing \/ IdentOpen \/ IdentPage \/ IdentReturn

SpecIdent == InitIdent /\ [][NextIdent]_vars

-----------------------------------------------------------------------------
(* Claims about extract_financial_data. *)

\* the candidate of term t on page p yields a label and a value that parses
Hit(p, t) == ResultTable[doc[p]][t].kind = "found"
\* the label of term t is located on page p (exactly or fuzzily)
LabelFound(p, t) == ResultTable[doc[p]][t].label \in {"exact", "fuzzy"}

TermIndices(m) == 1..Len(m.search_terms)
HitPages(m) == {p \in 1..Len(doc) : \E k \in TermIndices(m) : Hit(p, m.search_terms[k])}
HitTerms(m) == {k \in TermIndices(m) : \E p \in 1..Len(doc) : Hit(p, m.search_terms[k])}

\* the first hit when the pages are the outer loop and the terms the inner
FirstPageMajor(m) ==
    LET p == SetMin(HitPages(m))
    IN [page |-> p,
        term |-> m.search_terms[SetMin({k \in TermIndices(m) : Hit(p, m.search_terms[k])})]]
\* the first hit when the terms are the outer loop and the pages the inner
FirstPhraseMajor(m) ==
    LET k == SetMin(HitTerms(m))
    IN [page |-> SetMin({p \in 1..Len(doc) : Hit(p, m.search_terms[k])}),
        term |-> m.search_terms[k]]

MetricNamed(name) ==
    schema[CHOOSE j \in 1..Len(schema) : schema[j].standard_name = name]
ItemPair(item) == [page |-> item.source_page, term |-> item.source_term_used]
HasItem(name) == \E i \in 1..Len(extracted_data) : extracted_data[i].metric_name = name
Returned == pc = "done"

\* C1 as stated: every item's (source_term_used, source_page) is the first
\* hit in phrase-major, page-minor order (terms outer, pages inner), and a
\* metric with a hit has an item when the function returns.
ClaimC1_PhraseMajor ==
    /\ \A i \in 1..Len(extracted_data) :
          /\ HitTerms(MetricNamed(extracted_data[i].metric_name)) # {}
          /\ ItemPair(extracted_data[i])
                = FirstPhraseMajor(MetricNamed(extracted_data[i].metric_name))
    /\ Returned => \A j \in 1..Len(schema) :
                      HitTerms(schema[j]) # {} => HasItem(schema[j].standard_name)

\* C1 amended: every item's (source_term_used, source_page) is the first hit
\* in page-major, phrase-minor order (pages outer, terms inner), and a metric
\* with a hit has an item when the function returns.
ClaimC1_PageMajor ==
    /\ \A i \in 1..Len(extracted_data) :
          /\ HitPages(MetricNamed(extracted_data[i].metric_name)) # {}
          /\ ItemPair(extracted_data[i])
                = FirstPageMajor(MetricNamed(extracted_data[i].metric_name))
    /\ Returned => \A j \in 1..Len(schema) :
                      HitPages(schema[j]) # {} => HasItem(schema[j].standard_name)

\* C1 witness: the function has returned an item for a metric whose first
\* term hits only on a later page than its second term
WitnessC1 ==
    /\ Returned
    /\ \E i \in 1..Len(extracted_data) :
          /\ FirstPhraseMajor(MetricNamed(extracted_data[i].metric_name))
                # FirstPageMajor(MetricNamed(extracted_data[i].metric_name))
          /\ FirstPhraseMajor(MetricNamed(extracted_data[i].metric_name)).page
                > extracted_data[i].source_page

SchemaIndex(name) == CHOOSE j \in 1..Len(schema) : schema[j].standard_name = name
\* at most one item per metric_name, in schema order
OrderedDistinct(data) ==
    \A i \in 1..Len(data) :
        /\ \E j \in 1..Len(schema) : schema[j].standard_name = data[i].metric_name
        /\ \A k \in (i + 1)..Len(data) :
              SchemaIndex(data[i].metric_name) < SchemaIndex(data[k].metric_name)
IsPrefix(a, b) == Len(a) <= Len(b) /\ SubSeq(b, 1, Len(a)) = a

\* C2: the list holds at most one item per metric_name, in schema order, and
\* every step keeps the items already there: nothing adds a second item for
\* a metric or changes its first.
ClaimC2_OneItemPerMetric ==
    [][IsPrefix(extracted_data, extracted_data') /\ OrderedDistinct(extracted_data')]_vars

\* C2 witness: two metrics have their items, and the first of them has
\* another hit on a page after the one it was taken from
WitnessC2 ==
    /\ Returned /\ Len(extracted_data) >= 2
    /\ \E p \in 1..Len(doc) :
          /\ p > extracted_data[1].source_page
          /\ p \in HitPages(MetricNamed(extracted_data[1].metric_name))

\* C3: every item carries a number that passed the parse step: its raw_value
\* is the candidate's value string, _clean_number_string(raw_value) is not
\* None, and value = normalize_value_by_units(_clean_number_string(raw_value),
\* value_units); a candidate that does not parse gives no item.
ClaimC3_ValueParsed ==
    \A i \in 1..Len(extracted_data) :
        /\ extracted_data[i].source_page \in 1..Len(doc)
        /\ extracted_data[i].raw_value
              = ResultTable[doc[extracted_data[i].source_page]]
                           [extracted_data[i].source_term_used].raw_value
        /\ CleanNumberString(extracted_data[i].raw_value).ok
        /\ extracted_data[i].value.ok
        /\ extracted_data[i].value
              = NormalizeValueByUnits(CleanNumberString(extracted_data[i].raw_value),
                                      extracted_data[i].value_units)

\* C3 witness: an item scaled by its units was returned after the same term
\* gave a string that does not parse on an earlier page
WitnessC3 ==
    /\ Returned
    /\ \E i \in 1..Len(extracted_data) :
          /\ extracted_data[i].value_units = "millions"
          /\ \E p \in 1..(extracted_data[i].source_page - 1) :
                ResultTable[doc[p]][extracted_data[i].source_term_used].kind = "noparse"

Raw6029 == <<"6", ",", "0", "2", "9">>

\* C4 as stated (Scenario A): when page 3 is the first page with the label
\* "Net Interest Income", followed on its line by "6,029" under the caption
\* "$m", the item of net_interest_income has raw_value "6,029", value_units
\* millions, value 6,029,000,000 and source_page 3.
ClaimC4_ScenarioA ==
    (/\ Returned
     /\ Len(doc) = 3 /\ doc[3] = "a"
     /\ schema[1] = MetricNII
     /\ HitPages(MetricNII) = {3}) =>
        \E i \in 1..Len(extracted_data) :
            /\ extracted_data[i].metric_name = "net_interest_income"
            /\ extracted_data[i].raw_value = Raw6029
            /\ extracted_data[i].value_units = "millions"
            /\ extracted_data[i].value = Num(6029, 6)
            /\ extracted_data[i].source_page = 3

\* the line of page p that holds the located label of term t holds a numeric
\* token (is_numeric_token)
NumericOnLabelLine(p, t) ==
    \E l \in 1..Len(PageOf[doc[p]].lines) :
        /\ PageOf[doc[p]].lines[l].top = ResultTable[doc[p]][t].box.top
        /\ \E k \in 1..Len(PageOf[doc[p]].lines[l].toks) :
              IsNumericToken(PageOf[doc[p]].lines[l].toks[k].text)

\* the label of m is located somewhere in the document, and no line it is
\* located on holds numeric text
LabelWithoutNumber(m) ==
    /\ \E p \in 1..Len(doc), k \in TermIndices(m) : LabelFound(p, m.search_terms[k])
    /\ \A p \in 1..Len(doc), k \in TermIndices(m) :
          LabelFound(p, m.search_terms[k]) => ~NumericOnLabelLine(p, m.search_terms[k])

\* the item of a metric with a hit
ExpectedItem(m) ==
    DataPoint(m, FirstPageMajor(m).page - 1, FirstPageMajor(m).term,
              ResultTable[doc[FirstPageMajor(m).page]][FirstPageMajor(m).term],
              SnippetPath(ReportName, m.standard_name))

\* C5 as stated: when the function returns, a metric whose label is present
\* but has no numeric text on its line on any page has no item, and every
\* other metric with a hit has exactly the item of its first hit.
ClaimC5_LabelWithoutNumber ==
    Returned =>
        \A j \in 1..Len(schema) :
            LabelWithoutNumber(schema[j]) =>
                /\ ~HasItem(schema[j].standard_name)
                /\ \A n \in 1..Len(schema) :
                      (n # j /\ HitPages(schema[n]) # {}) =>
                          \E i \in 1..Len(extracted_data) :
                              extracted_data[i] = ExpectedItem(schema[n])

\* C5 witness: the function has returned an item for a metric whose label
\* has no numeric text on its line on any page
WitnessC5 ==
    /\ Returned
    /\ \E j \in 1..Len(schema) :
          LabelWithoutNumber(schema[j]) /\ HasItem(schema[j].standard_name)

\* the label of m is located somewhere in the document, and wherever it is
\* located the text of its band holds no digit
NoNumberOnly(m) ==
    /\ \E p \in 1..Len(doc), k \in TermIndices(m) : LabelFound(p, m.search_terms[k])
    /\ \A p \in 1..Len(doc), k \in TermIndices(m) :
          LabelFound(p, m.search_terms[k])
              => ResultTable[doc[p]][m.search_terms[k]].kind = "nonumber"

\* C5 where it holds: a label whose band holds no digit (the label's own
\* characters included) raises nothing and appends nothing, the term loop
\* goes on to the next term; when the function returns, such a metric has no
\* item, no item has a null value, and every other metric with a hit has the
\* item of its first hit.
NoDigitInBandGivesNoItem ==
    /\ [][(InTermLoop /\ CurResult.kind = "nonumber")
             => (pc' = "term" /\ ti' = ti + 1 /\ extracted_data' = extracted_data)]_vars
    /\ [](Returned =>
            \A j \in 1..Len(schema) :
                NoNumberOnly(schema[j]) =>
                    /\ ~HasItem(schema[j].standard_name)
                    /\ \A i \in 1..Len(extracted_data) : extracted_data[i].value.ok
                    /\ \A n \in 1..Len(schema) :
                          (n # j /\ HitPages(schema[n]) # {}) =>
                              \E i \in 1..Len(extracted_data) :
                                  extracted_data[i] = ExpectedItem(schema[n]))

\* the x0 of the first glyph of the value string in the band of the label
ValueX0(page, r) ==
    ColX0(BandLines(page, r.box)[Locate(BandLines(page, r.box), r.start).line],
          Locate(BandLines(page, r.box), r.start).col)
ValueX0Table ==
    [id \in PageIds |-> [t \in AllTerms |->
        IF ResultTable[id][t].kind = "found"
        THEN ValueX0(PageOf[id], ResultTable[id][t]) ELSE 0]]

\* C8 as stated: the value of every item starts at or beyond the right edge
\* of the matched label: it is no digit run of the label itself and no number
\* to the left of the label.
ClaimC8_ValueRightOfLabel ==
    \A i \in 1..Len(extracted_data) :
        ValueX0Table[doc[extracted_data[i].source_page]][extracted_data[i].source_term_used]
            >= extracted_data[i].term_bbox.x1

\* the token-sort score of word w against term is at least 80
ScoresAtLeast80(term, w) ==
    TokenSortRatio(NormalizeLabel(term), NormalizeLabel(w.text)).num
        >= 80 * TokenSortRatio(NormalizeLabel(term), NormalizeLabel(w.text)).den
\* no word of wds scores higher against term than w
BestScoring(term, wds, w) ==
    \A j \in 1..Len(wds) :
        ~Better(TokenSortRatio(NormalizeLabel(term), NormalizeLabel(wds[j].text)),
                TokenSortRatio(NormalizeLabel(term), NormalizeLabel(w.text)))

\* what C13 says of the way the label of term was located on page, r being
\* the result of the term loop's body
FuzzyPathFacts(page, term, r) ==
    LET wds == ExtractWords(page)
        inText == ContainsWord(LowerStr(ExtractText(page)), LowerStr(term))
        exact == PageSearch(page, term).found
    IN /\ r.label \in {"fuzzy", "nofuzzy"} <=> (inText /\ ~exact)
       /\ r.label = "fuzzy" <=>
             (inText /\ ~exact /\ \E k \in 1..Len(wds) : ScoresAtLeast80(term, wds[k]))
       /\ r.label = "fuzzy" =>
             \E k \in 1..Len(wds) : /\ r.box = WordBox(wds[k])
                                    /\ ScoresAtLeast80(term, wds[k])
                                    /\ BestScoring(term, wds, wds[k])
       /\ r.label = "nofuzzy" => r.kind = "nofuzzy"
FuzzyPathTable ==
    [id \in PageIds |-> [t \in AllTerms |->
        FuzzyPathFacts(PageOf[id], t, ResultTable[id][t])]]

\* C13: the fuzzy path is taken only for a phrase that the whole-page text
\* search found and the exact search did not; it accepts the best-scoring
\* single word if and only if its token-sort score is at least 80, otherwise
\* the phrase gives no match on the page; the box of an accepted fuzzy match
\* is the box of one word, and it is the box the item carries.
ClaimC13_FuzzyPath ==
    /\ (pc = "term" /\ ti <= Len(schema[mi].search_terms))
          => FuzzyPathTable[doc[pi]][schema[mi].search_terms[ti]]
    /\ \A i \in 1..Len(extracted_data) :
          /\ ResultTable[doc[extracted_data[i].source_page]]
                        [extracted_data[i].source_term_used].label \in {"exact", "fuzzy"}
          /\ extracted_data[i].term_bbox
                = ResultTable[doc[extracted_data[i].source_page]]
                             [extracted_data[i].source_term_used].box

\* C13 witness: an item was returned for a fuzzily located term after another
\* term of its metric was rejected by the threshold on the same page
WitnessC13 ==
    /\ Returned
    /\ \E i \in 1..Len(extracted_data) :
          /\ ResultTable[doc[extracted_data[i].source_page]]
                        [extracted_data[i].source_term_used].label = "fuzzy"
          /\ \E k \in TermIndices(MetricNamed(extracted_data[i].metric_name)) :
                ResultTable[doc[extracted_data[i].source_page]]
                           [MetricNamed(extracted_data[i].metric_name).search_terms[k]].label
                    = "nofuzzy"

-----------------------------------------------------------------------------
(* Claims about the pure functions. *)

OnlyDigits(s) == SelectSeq(s, IsDigit)

\* the number of digits written after the decimal point of s
FracDigits(s) ==
    IF "." \notin Range(s) THEN 0
    ELSE Len(OnlyDigits(SubSeq(s, (CHOOSE i \in 1..Len(s) :
                 s[i] = "." /\ \A j \in 1..(i - 1) : s[j] # ".") + 1, Len(s))))

\* the number a value string denotes: its digits, scaled by the digits after
\* the point, negative when it carries a minus sign or accounting parentheses
Denoted(s) ==
    LET mag == Num(DigitsValue(OnlyDigits(s)), 0 - FracDigits(s))
    IN IF Range(s) \cap {"-", UMinus, "("} # {} THEN [mag EXCEPT !.m = 0 - mag.m] ELSE mag

\* C6: _clean_number_string removes commas, turns an enclosing parenthesis
\* pair into a minus sign, strips '$' and '%' and parses: the documented
\* examples give -1234.5, 1234.0, 99.0, 2500.0 and -512.0; every number it
\* returns is the number the string denotes; commas never change the result;
\* a string with an unclosed parenthesis, or without a digit, gives None.
ClaimC6_CleanNumber ==
    cout.done =>
        /\ cin = Ex1234p5Neg => cout.val = Num(0 - 12345, 0 - 1)
        /\ cin = Ex1234 => cout.val = Num(1234, 0)
        /\ cin = Ex99Pct => cout.val = Num(99, 0)
        /\ cin = Ex2500Dollar => cout.val = Num(2500, 0)
        /\ cin = Ex512Neg => cout.val = Num(0 - 512, 0)
        /\ cin = ExUnclosed => cout.val = NoneNum
        /\ cout.val.ok => cout.val = Denoted(cin)
        /\ cout.val = CleanNumberString(RemoveChars(cin, {","}))
        /\ OnlyDigits(cin) = <<>> => cout.val = NoneNum
        /\ (Range(cin) \subseteq DigitSet \cup {",", "$", "%"} /\ OnlyDigits(cin) # <<>>)
               => cout.val.ok

\* C6 witness: the accounting negative "(1,234.5)" has been cleaned to -1234.5
WitnessC6 == cout.done /\ cin = Ex1234p5Neg /\ cout.val = Num(0 - 12345, 0 - 1)

Scale10(v, k) == IF v.m = 0 THEN v ELSE [v EXCEPT !.x = v.x + k]

\* C7: normalize_value_by_units multiplies by 1,000 for thousands, 1,000,000
\* for millions and 1,000,000,000 for billions, and returns the value
\* unchanged when no unit was detected.
ClaimC7_UnitScaling ==
    uout.done =>
        /\ uunits = "thousands" => uout.val = Scale10(uval, 3)
        /\ uunits = "millions" => uout.val = Scale10(uval, 6)
        /\ uunits = "billions" => uout.val = Scale10(uval, 9)
        /\ uunits = "None" => uout.val = uval

\* C7 witness: 12 in millions has been scaled to 12,000,000
WitnessC7 ==
    uout.done /\ uunits = "millions" /\ uval = Num(12, 0) /\ uout.val = [ok |-> TRUE, m |-> 12, x |-> 6]

\* the indices after the match whose token is right of the anchor, within
\* y_tol = max(2.0, 1.5 * anchor height) of its top, and numeric
ValueCandidates(ws, sp) ==
    LET anchor == At(ws, sp[2] - 1)
    IN {i \in sp[2]..(Len(ws) - 1) :
          /\ At(ws, i).x0 >= anchor.x1
          /\ 2 * Abs(At(ws, i).top - anchor.top) <= Max(4, 3 * (anchor.bottom - anchor.top))
          /\ IsNumericToken(At(ws, i).text)}

\* C9: find_value_near_phrase anchors on the last token of the match and
\* returns the run starting at the lowest later index that is right of the
\* anchor, within y_tol of its top and numeric; None exactly when there is none.
ClaimC9_FindValue ==
    vout.op = "find" =>
        LET cands == ValueCandidates(words, span)
        IN /\ vout.res.ok <=> cands # {}
           /\ cands # {} => vout.res = JoinNumericSequence(words, SetMin(cands))

\* C9 witness: a value was returned after skipping a later token that fails
\* one of the three conditions
WitnessC9 ==
    /\ vout.op = "find" /\ vout.res.ok
    /\ ValueCandidates(words, span) # {}
    /\ SetMin(ValueCandidates(words, span)) > span[2]

\* the indices join_numeric_sequence consumes from start: the maximal block
\* of numeric tokens
Consumed(ws, start) ==
    {i \in start..(Len(ws) - 1) : \A j \in start..i : IsNumericToken(At(ws, j).text)}

\* C10: the box join_numeric_sequence returns is the union of the boxes of
\* the consumed tokens (minimum x0 and top, maximum x1 and bottom).
ClaimC10_UnionBox ==
    (vout.op = "join" /\ vout.start >= 0 /\ vout.start < Len(words)
        /\ Consumed(words, vout.start) # {}) =>
        LET run == Consumed(words, vout.start)
        IN /\ \A i \in run : /\ vout.res.x0 <= At(words, i).x0
                             /\ vout.res.top <= At(words, i).top
                             /\ vout.res.x1 >= At(words, i).x1
                             /\ vout.res.bottom >= At(words, i).bottom
           /\ \E i \in run : vout.res.x0 = At(words, i).x0
           /\ \E i \in run : vout.res.top = At(words, i).top
           /\ \E i \in run : vout.res.x1 = At(words, i).x1
           /\ \E i \in run : vout.res.bottom = At(words, i).bottom

\* the texts of tokens from..to (0-based), joined by single spaces
RECURSIVE SpaceJoined(_, _, _)
SpaceJoined(ws, from, to) ==
    IF from > to THEN <<>>
    ELSE IF from = to THEN At(ws, from).text
    ELSE At(ws, from).text \o <<" ">> \o SpaceJoined(ws, from + 1, to)

\* C11: the run of join_numeric_sequence is the maximal block of adjacent
\* numeric tokens from the start index, ending before the first token that
\* is not numeric; its text is their texts joined by single spaces, in
\* order, and no token beyond the run is included.
ClaimC11_MaximalRun ==
    (vout.op = "join" /\ vout.start >= 0 /\ vout.start < Len(words)) =>
        vout.res.text
            = SpaceJoined(words, vout.start,
                          vout.start + Cardinality(Consumed(words, vout.start)) - 1)

\* C11 witness: a run of two numeric tokens was joined and the token after
\* it, which is not numeric, was left out
WitnessC11 ==
    /\ vout.op = "join" /\ vout.start = 0 /\ Len(words) = 3
    /\ Cardinality(Consumed(words, 0)) = 2
    /\ vout.res.text = At(words, 0).text \o <<" ">> \o At(words, 1).text

\* C12: find_phrase_indices returns, by increasing start, exactly the spans
\* (i, i + m) whose m stripped, lowered page tokens equal the m phrase
\* tokens; nothing when the page has fewer tokens than the phrase; every span
\* lies within the token sequence.
ClaimC12_PhraseSpans ==
    phr.op = "done" =>
        LET n == Len(phr.words)
            pt == PhraseTokens(phr.phrase)
            m == Len(pt)
            out == phr.matches
        IN /\ {out[k] : k \in 1..Len(out)}
                 = { <<i, i + m>> : i \in {j \in 0..(n - m) :
                        \A k \in 1..m : LowerStr(Strip(phr.words[j + k].text)) = pt[k]} }
           /\ \A k \in 1..(Len(out) - 1) : out[k][1] < out[k + 1][1]
           /\ n < m => out = <<>>
           /\ \A k \in 1..Len(out) : 0 <= out[k][1] /\ out[k][1] <= out[k][2] /\ out[k][2] <= n

\* C12 witness: two overlapping spans of a two-token phrase were returned for
\* page tokens that differ from the phrase in case
WitnessC12 ==
    /\ phr.op = "done" /\ Len(phr.matches) = 2
    /\ phr.matches = << <<0, 2>>, <<1, 3>> >>
    /\ \E k \in 1..Len(phr.words) : phr.words[k].text # LowerStr(phr.words[k].text)

\* the lowered text of the window above the label of the detect_units_near call
UnitWindow == WindowText(ud.page, ud.box, 150, 60)
\* one of the keywords occurs in text between word boundaries
GroupHit(text, kws) == \E kw \in kws : ContainsWord(text, kw)
ThousandCues == {KwThousands, Kw000s}
MillionCues == {KwMillion, KwDollarM, KwAudM, KwAudMillion, KwInMillions}
BillionCues == {KwBillion, KwDollarBn, KwAudBn, KwAudBillion, KwInBillions}
TrillionCues == { <<"t", "r", "i", "l", "l", "i", "o", "n">>,
                  <<"i", "n", " ", "t", "r", "i", "l", "l", "i", "o", "n", "s">> }

\* C14 as stated: detect_units_near returns the first of the groups
\* thousands, millions, billions, trillions that matches the window text,
\* and no unit when none matches, which leaves the value unscaled.
ClaimC14_UnitGroups ==
    ud.op = "done" =>
        /\ ud.units = (IF GroupHit(UnitWindow, ThousandCues) THEN "thousands"
                       ELSE IF GroupHit(UnitWindow, MillionCues) THEN "millions"
                       ELSE IF GroupHit(UnitWindow, BillionCues) THEN "billions"
                       ELSE IF GroupHit(UnitWindow, TrillionCues) THEN "trillions"
                       ELSE "None")
        /\ ud.units = "None" => ud.value = Num(5, 0)

\* C14 amended: detect_units_near returns the first of the groups thousands,
\* millions, billions whose pattern matches the window text; when none
\* matches it returns "%" if the text holds a '%' and None otherwise; it has
\* no trillions group; for "%" and for None the value stays unscaled.
ClaimC14_UnitOrder ==
    ud.op = "done" =>
        /\ ud.units = (IF GroupHit(UnitWindow, ThousandCues) THEN "thousands"
                       ELSE IF GroupHit(UnitWindow, MillionCues) THEN "millions"
                       ELSE IF GroupHit(UnitWindow, BillionCues) THEN "billions"
                       ELSE IF "%" \in Range(UnitWindow) THEN "%"
                       ELSE "None")
        /\ ud.units # "trillions"
        /\ ud.units \in {"None", "%"} => ud.value = Num(5, 0)
        /\ ud.units = "millions" => ud.value = Num(5, 6)

\* C14 witness: a caption with a millions cue before a thousands cue gave
\* thousands
WitnessC14 ==
    /\ ud.op = "done" /\ ud.units = "thousands"
    /\ OccursAt(UnitWindow, <<"i", "n", " ", "m", "i", "l", "l", "i", "o", "n", "s", " ",
                              "t", "h", "o", "u", "s", "a", "n", "d", "s">>, 1)

-----------------------------------------------------------------------------
(* Claims about _calculate_confidence. *)

\* C15: the confidence returned by either _calculate_confidence lies in
\* the closed interval from 0 to 1 (0 to 10 tenths) for every combination
\* of clean value, unit detected and currency detected.
ClaimC15_ConfidenceBounds ==
    cf.op = "done" => cf.confidence >= 0 /\ cf.confidence <= 10

\* the identifier's three boosts add up to 1.1 and the result is 1.0
WitnessC15 ==
    /\ cf.op = "done" /\ cf.class = "identifier"
    /\ IsCleanValue(cf.raw_value) /\ cf.units /\ cf.currency
    /\ cf.confidence = 10

-----------------------------------------------------------------------------
(* Claims about render_cell_screenshot. *)

Covers(r, x, y) == r.x0 <= x /\ x < r.x1 /\ r.y0 <= y /\ y < r.y1
Expanded(bbox, margin_points) ==
    FitzRect(bbox.x0 - margin_points, bbox.y0 - margin_points,
             bbox.x1 + margin_points, bbox.y1 + margin_points)
\* the coordinates at which membership in either rectangle can change
EdgesX(a, b) == {a.x0 - 1, a.x0, a.x1 - 1, a.x1, b.x0 - 1, b.x0, b.x1 - 1, b.x1}
EdgesY(a, b) == {a.y0 - 1, a.y0, a.y1 - 1, a.y1, b.y0 - 1, b.y0, b.y1 - 1, b.y1}
ClipComputed ==
    /\ rnd.op = "render"
    /\ \/ rnd.pc \in {"pixmap", "draw", "makedirs", "save", "returned"}
       \/ /\ rnd.pc \in {"finally", "raised"}
          /\ rnd.opens = 1 /\ rnd.page_index < Len(RenderDoc)

\* C16: the clip is the bbox expanded by margin_points intersected with the
\* page rectangle, so it lies within the page; with bbox None the clip is
\* the full page, no highlight is drawn and, the environment working, the
\* call saves the full-page image and returns.
ClaimC16_ClipRect ==
    /\ (ClipComputed /\ rnd.bbox.some) =>
          /\ \A x \in EdgesX(Expanded(rnd.bbox, rnd.margin_points), RenderPageRect),
                y \in EdgesY(Expanded(rnd.bbox, rnd.margin_points), RenderPageRect) :
                Covers(rnd.clip, x, y) <=>
                    /\ Covers(Expanded(rnd.bbox, rnd.margin_points), x, y)
                    /\ Covers(RenderPageRect, x, y)
          /\ ~RectIsEmpty(rnd.clip) =>
                /\ RenderPageRect.x0 <= rnd.clip.x0 /\ rnd.clip.x1 <= RenderPageRect.x1
                /\ RenderPageRect.y0 <= rnd.clip.y0 /\ rnd.clip.y1 <= RenderPageRect.y1
    /\ (ClipComputed /\ ~rnd.bbox.some) =>
          /\ rnd.clip = RenderPageRect
          /\ ~rnd.inner_rect.some /\ ~rnd.px_rect.some
    /\ (rnd.op = "render" /\ ~rnd.bbox.some /\ rnd.fault = "none"
            /\ rnd.page_index < Len(RenderDoc)) =>
          /\ rnd.pc # "raised" /\ rnd.pending # "raise"
          /\ rnd.pc = "returned" =>
                /\ rnd.saved
                /\ rnd.image = [width |-> RenderPageRect.x1 * rnd.scale,
                                height |-> RenderPageRect.y1 * rnd.scale]

\* a bbox whose margin crosses the page edge, cut back to the page
WitnessC16 ==
    /\ rnd.op = "render" /\ rnd.pc = "returned" /\ rnd.bbox.some
    /\ rnd.bbox.x0 - rnd.margin_points < RenderPageRect.x0
    /\ rnd.clip.x0 = RenderPageRect.x0 /\ ~RectIsEmpty(rnd.clip)
    /\ rnd.clip # Expanded(rnd.bbox, rnd.margin_points)

InsidePage(r) ==
    /\ r.some /\ ~RectIsEmpty(r)
    /\ RenderPageRect.x0 <= r.x0 /\ r.x1 <= RenderPageRect.x1
    /\ RenderPageRect.y0 <= r.y0 /\ r.y1 <= RenderPageRect.y1
\* every corner through (point - clip origin) * scale, clamped to the image
OriginTransform(r, clip, scale, image) ==
    FitzRect(ClampPx((r.x0 - clip.x0) * scale, image.width),
             ClampPx((r.y0 - clip.y0) * scale, image.height),
             ClampPx((r.x1 - clip.x0) * scale, image.width),
             ClampPx((r.y1 - clip.y0) * scale, image.height))
HighlightComputed == rnd.op = "render" /\ rnd.px_rect.some

\* C17: the highlight's four pixel coordinates are the same transform
\* (point - clip origin) * scale of the bbox's coordinates, clamped to the
\* image, so for a bbox inside the page its right and bottom edges lie to
\* the right of and below its left and top edges.
ClaimC17_SameTransform ==
    (HighlightComputed /\ InsidePage(rnd.bbox)) =>
        /\ rnd.px_rect = OriginTransform(rnd.bbox, rnd.clip, rnd.scale, rnd.image)
        /\ rnd.px_rect.x1 > rnd.px_rect.x0 /\ rnd.px_rect.y1 > rnd.px_rect.y0

\* bbox (20, 20, 40, 30) with margin 8 at scale 2: the rectangle handed to
\* draw.rectangle is (16, 16, 0, 0)
WitnessC17 ==
    /\ HighlightComputed /\ rnd.bbox = FitzRect(20, 20, 40, 30)
    /\ rnd.margin_points = 8 /\ rnd.scale = 2
    /\ rnd.clip = FitzRect(12, 12, 48, 38)
    /\ rnd.px_rect = FitzRect(16, 16, 0, 0)

-----------------------------------------------------------------------------
RenderExited == rnd.op = "render" /\ rnd.pc \in {"returned", "raised"}

\* C18: whether render_cell_screenshot returns or raises (page index,
\* rasterisation, drawing, directory creation, save), the document it
\* opened is closed before control leaves the function, exactly once, and
\* never while the body is still running.
ClaimC18_HandleClosedOnce ==
    /\ rnd.op = "render" => rnd.closes <= rnd.opens /\ rnd.opens <= 1
    /\ (RenderExited /\ rnd.opens = 1) => rnd.closes = 1
    /\ (rnd.op = "render" /\ rnd.pc \in {"page", "clip", "pixmap", "draw",
                                          "makedirs", "save", "finally"}) =>
           rnd.opens = 1 /\ rnd.closes = 0

\* the save raised after the document was opened, and the handle is closed
WitnessC18 ==
    /\ rnd.op = "render" /\ rnd.pc = "raised" /\ rnd.fault = "save"
    /\ rnd.opens = 1 /\ rnd.closes = 1 /\ ~rnd.saved

-----------------------------------------------------------------------------
(* Claims about failures inside extract_financial_data. *)

\* C19: once a metric's value has been extracted from a page, whatever
\* happens while its evidence image is rendered, the metric's item is
\* appended with that value and the extraction goes on.
ClaimC19_RenderFailureKept ==
    [][Found =>
          /\ pc' # "raised"
          /\ Len(extracted_data') = Len(extracted_data) + 1
          /\ extracted_data'[Len(extracted_data')].metric_name = CurMetric.standard_name
          /\ extracted_data'[Len(extracted_data')].value = CurResult.value]_vars

\* the snippet of a found metric raised while another metric was still to come
WitnessC19 ==
    /\ pc = "raised" /\ pi \in 1..Len(doc) /\ ~CurPage.broken
    /\ ti \in 1..Len(CurMetric.search_terms) /\ CurResult.kind = "found"
    /\ mi < Len(schema)

PageFails == pc = "page" /\ pi <= Len(doc) /\ ~found_metric /\ CurPage.broken
FindableLater ==
    \E p \in (pi + 1)..Len(doc) : \E t \in 1..Len(CurMetric.search_terms) :
        /\ ~PageOf[doc[p]].broken
        /\ ResultTable[doc[p]][CurMetric.search_terms[t]].kind = "found"

\* C20: when text extraction raises on a page, the page is skipped and the
\* page loop goes on to the next page; no exception leaves the extraction
\* and nothing collected so far is lost.
ClaimC20_PageFailureSkipped ==
    [][PageFails =>
          /\ pc' = "page" /\ pi' = pi + 1
          /\ extracted_data' = extracted_data]_vars

\* extraction raised on a page although a later page holds the metric
WitnessC20 ==
    /\ pc = "raised" /\ pi \in 1..Len(doc) /\ CurPage.broken
    /\ FindableLater

\* extract_kpis_from_pdf, by contrast, does skip a page whose extract_words
\* raises: the loop moves to the next page with results untouched, and at
\* the return every KPI that some readable page gives is present.
KpiFailureSkipped ==
    [][(KpiAtPage /\ KpiPage.broken) =>
          /\ kpi'.pc = "page" /\ kpi'.page_index = kpi.page_index + 1
          /\ kpi'.results = kpi.results]_vars
KpiFindableReturned ==
    (kpi.op = "kpi" /\ kpi.pc = "done") =>
        \A k \in DOMAIN KpiTargets :
            kpi.results[k].found <=>
                \E p \in 1..Len(kpi.doc) : KpiPageTable[kpi.doc[p]][k].found
KpiFoundAfterBrokenPage ==
    /\ kpi.op = "kpi" /\ kpi.pc = "done" /\ Len(kpi.doc) >= 2
    /\ kpi.doc[1] = "broken" /\ kpi.results["net_profit_after_tax"].found
    /\ kpi.results["net_profit_after_tax"].page = 2

-----------------------------------------------------------------------------
ParseFails == InTermLoop /\ CurResult.kind = "noparse"

\* C21: a value that does not parse discards that candidate only: the step
\* moves to the next term of the same page with nothing else changed, and
\* when the function returns every metric with a parsable candidate on some
\* page has an item whose value is a number.
ClaimC21_ParseFailureContinues ==
    /\ [][ParseFails =>
            /\ pc' = "term" /\ ti' = ti + 1 /\ pi' = pi /\ mi' = mi
            /\ found_metric' = found_metric
            /\ extracted_data' = extracted_data]_vars
    /\ [](Returned =>
            \A j \in 1..Len(schema) :
                HitPages(schema[j]) # {} =>
                    \E i \in 1..Len(extracted_data) :
                        /\ extracted_data[i].metric_name = schema[j].standard_name
                        /\ extracted_data[i].value.ok)

\* the returned item of a metric was found by a later term of the page on
\* which an earlier term's value did not parse
WitnessC21 ==
    /\ Returned
    /\ \E i \in 1..Len(extracted_data) :
          \E k \in TermIndices(MetricNamed(extracted_data[i].metric_name)) :
              /\ MetricNamed(extracted_data[i].metric_name).search_terms[k]
                    = extracted_data[i].source_term_used
              /\ k > 1
              /\ ResultTable[doc[extracted_data[i].source_page]]
                            [MetricNamed(extracted_data[i].metric_name).search_terms[k - 1]].kind
                    = "noparse"

-----------------------------------------------------------------------------
\* the list that the document and the schema determine: for every metric
\* with a hit, in schema order, the item of its first hit
RECURSIVE ExpectedFrom(_)
ExpectedFrom(j) ==
    IF j > Len(schema) THEN <<>>
    ELSE (IF HitPages(schema[j]) # {} THEN <<ExpectedItem(schema[j])>> ELSE <<>>)
         \o ExpectedFrom(j + 1)

\* C22: the list returned is determined by the document and the schema
\* alone, so two runs on the same inputs return the same items in the same
\* order, whatever files an earlier run left in the snippet directory.
ClaimC22_Deterministic ==
    Returned => extracted_data = ExpectedFrom(1)

\* a run that returned two items while a file left by an earlier run, for a
\* metric this run did not find, is in the directory
WitnessC22 ==
    /\ Returned /\ Len(extracted_data) >= 2
    /\ \E j \in 1..Len(schema) :
          /\ ~HasItem(schema[j].standard_name)
          /\ SnippetPath(ReportName, schema[j].standard_name) \in snippets

-----------------------------------------------------------------------------
(* Claims about the evidence image files. *)

\* C23: the path is a function of the key, so the same key gives the same
\* path and replaces the file; and two writers with different (document,
\* metric) or (document, cell) keys never have the same path.
ClaimC23_KeysApart ==
    wr.op = "write" =>
        \A v \in Writers, w \in Writers :
            (wr.pc[v] # "start" /\ wr.pc[w] # "start") =>
                (wr.key[v] = wr.key[w] <=> wr.path[v] = wr.path[w])

\* the snippet of (reports/2024/nab.pdf, roe) has replaced the snippet of
\* (reports/2023/nab.pdf, roe)
WitnessC23 ==
    /\ wr.op = "write"
    /\ wr.key[1] = SnippetKey("reports/2023", StemNab, NameRoe)
    /\ wr.key[2] = SnippetKey("reports/2024", StemNab, NameRoe)
    /\ wr.pc[1] = "saved" /\ wr.pc[2] = "saved"
    /\ wr.files = {[path |-> wr.path[1], key |-> wr.key[2]]}

-----------------------------------------------------------------------------
(* Claims about the classifiers. *)

\* C24: classify_document on a path that does not exist returns a result
\* with is_annual_report False and confidence 0, and every result has
\* method ai, fallback or error and a confidence from 0 to 100.
ClaimC24_ClassifyResult ==
    (cls.op = "classify" /\ cls.pc = "done") =>
        /\ cls.result.method \in {"ai", "fallback", "error"}
        /\ cls.result.confidence >= 0 /\ cls.result.confidence <= 100
        /\ ~cls.exists =>
              /\ ~cls.result.is_annual_report
              /\ cls.result.confidence = 0

\* the result for a missing file, asked of a loaded model
WitnessC24 ==
    /\ cls.op = "classify" /\ cls.pc = "done" /\ ~cls.exists
    /\ cls.model = "loaded" /\ cls.result = Classified(FALSE, 0, "error")

\* C25: when the classifier is available but its confidence is below 60, or
\* it raises, the result of is_likely_financial_report is whether the
\* heuristic score of the text reaches 3, whatever the classifier's verdict.
ClaimC25_HeuristicDecides ==
    (/\ cls.op = "likely" /\ cls.pc = "done"
     /\ cls.available
     /\ (cls.raised \/ cls.first.confidence < 60)) =>
        cls.result = (HeuristicTable[cls.content][cls.bank][cls.year] >= 3)

\* a text without any keyword is accepted on the verdict of a second
\* classification of confidence 59
WitnessC25 ==
    /\ cls.op = "likely" /\ cls.pc = "done" /\ cls.available
    /\ ~cls.raised /\ cls.first.confidence = 59
    /\ ~cls.second_raised /\ cls.second.is_annual_report /\ cls.second.confidence = 59
    /\ cls.content = "plain"
    /\ HeuristicTable[cls.content][cls.bank][cls.year] = 0
    /\ cls.result

-----------------------------------------------------------------------------
(* Claims about the value text. *)

\* C26: the joined text of a run of one or more tokens that each satisfy
\* is_numeric_token is accepted by _clean_number_string, which returns a
\* number and not None.
ClaimC26_JoinedTextParses ==
    (jc.op = "join" /\ jc.pc = "done" /\ jc.run >= 1) => jc.value.ok

\* two numeric tokens side by side, joined to "5 5", are not a number
WitnessC26 ==
    /\ jc.op = "join" /\ jc.pc = "done" /\ jc.run = 2
    /\ jc.value_text = <<"5", " ", "5">>
    /\ ~jc.value.ok

\* a single token that is_numeric_token accepts and the normalizer rejects
WitnessC26Single ==
    /\ jc.op = "join" /\ jc.pc = "done" /\ jc.run = 1
    /\ jc.value_text = <<"(", "5">>
    /\ ~jc.value.ok

-----------------------------------------------------------------------------
(* Claims about the report store. *)

Ingestions == {"collect_from_urls", "migrate_existing", "download_and_validate"}

\* C27: when a report is stored for a year and collect_from_urls,
\* migrate_existing or download_and_validate has processed a source for
\* that year which is not judged a financial report, the stored file still
\* exists with its previous content.
ClaimC27_StoredReportKept ==
    (/\ store.op = "store"
     /\ store.last.op \in Ingestions
     /\ store.last.source \in Contents \ Financial
     /\ store.last.before # Absent) =>
        store.files[store.last.year] = store.last.before

\* a stored report is gone after a brochure was ingested from a local path
WitnessC27 ==
    /\ store.op = "store"
    /\ store.last.op = "collect_from_urls"
    /\ store.last.source = "brochure"
    /\ store.last.before = "reportA"
    /\ store.files[store.last.year] = Absent

\* C28: an ".approved" marker exists only next to a report that exists and
\* has the content that was approved.
ClaimC28_MarkerMatchesReport ==
    store.op = "store" =>
        \A y \in Years :
            store.markers[y] # Absent => store.files[y] = store.markers[y]

\* an upload has replaced an approved report and the marker is still there
WitnessC28 ==
    /\ store.op = "store"
    /\ store.last.op = "upload"
    /\ store.markers[store.last.year] = "reportA"
    /\ store.files[store.last.year] = "brochure"

\* cleanup has removed a report and left its marker
WitnessC28Cleanup ==
    /\ store.op = "store"
    /\ store.last.op = "cleanup"
    /\ \E y \in Years : store.markers[y] # Absent /\ store.files[y] = Absent

\* C29: when download_and_validate has returned, <dest>.tmp does not exist,
\* and dest_path was returned only for a download judged a financial
\* report that now sits at dest_path; otherwise None was returned.
ClaimC29_NoTmpLeft ==
    (store.op = "store" /\ store.last.op = "download_and_validate") =>
        /\ ~store.tmp[store.last.year]
        /\ store.last.ret = "dest" =>
              /\ store.last.source \in Financial
              /\ store.files[store.last.year] = store.last.source
        /\ store.last.ret # "dest" => store.last.ret = Absent

\* the weaker statement that holds: what is returned is published
DownloadPublishesValidated ==
    (store.op = "store" /\ store.last.op = "download_and_validate") =>
        /\ store.last.ret = "dest" =>
              /\ store.last.source \in Financial
              /\ store.files[store.last.year] = store.last.source
        /\ store.last.ret # "dest" =>
              /\ store.last.ret = Absent
              /\ store.files[store.last.year] = store.last.before

\* the report was published by the copy and the temporary file remains
WitnessC29 ==
    /\ store.op = "store" /\ store.last.op = "download_and_validate"
    /\ store.last.ret = "dest"
    /\ store.files[store.last.year] = store.last.source
    /\ store.tmp[store.last.year]

-----------------------------------------------------------------------------
(* Claims about is_financial_statement. *)

\* C30: the confidence returned by is_financial_statement lies between 0
\* and 1 for every document, whatever number of patterns match on each
\* page, and is_financial is true exactly when the confidence exceeds 0.3.
ClaimC30_ConfidenceInUnitInterval ==
    (ident.op = "ident" /\ ident.pc = "done") =>
        /\ ident.confidence_num >= 0
        /\ ident.confidence_num <= IndicatorCount
        /\ ident.is_financial <=> (10 * ident.confidence_num > 3 * IndicatorCount)

\* the half of the statement that holds, with the evidence list
IdentThreshold ==
    (ident.op = "ident" /\ ident.pc = "done") =>
        /\ ident.is_financial <=> (10 * ident.confidence_num > 3 * IndicatorCount)
        /\ Len(ident.evidence) = ident.confidence_num
        /\ ident.confidence_num <= SamplePages * IndicatorCount

\* ten sampled pages of a longer document on which every pattern matches:
\* the confidence is 340 / 34 = 10.0
WitnessC30 ==
    /\ ident.op = "ident" /\ ident.pc = "done"
    /\ Len(ident.pages) > SamplePages
    /\ ident.page_num = SamplePages
    /\ ident.confidence_num = SamplePages * IndicatorCount
    /\ ident.is_financial

====
